---------------------------- MODULE Spec2Model ----------------------------
(***************************************************************************)
(* Model of the hybrid retrieval core of TNChatbot                          *)
(* (backend/app/rag/retrieve.py): reciprocal rank fusion, the lexical      *)
(* and cross-encoder rerankers, and the fallback chain of                  *)
(* retrieve_rag_context; and of the ingestion side                         *)
(* (backend/app/rag/ingest.py): embed_texts, chunk_text and its callers,   *)
(* ensure_qdrant_collection, with keyword_search_bm25 on its rows.         *)
(*                                                                         *)
(* Numbers.  Retrieval scores, score thresholds and the lexical weight are *)
(* floats in the source; here they are integers in hundredths              *)
(* (0.45 is 45).  Blended and fused scores are kept exact by scaling with  *)
(* a common denominator, so comparisons are those of exact arithmetic.     *)
(***************************************************************************)
EXTENDS Integers, Sequences, FiniteSets, TLC

VARIABLES
    pc,                 \* position of the retrieve_rag_context request
    normalized_intent,  \* retrieve.py:609
    resolved_top_k,     \* retrieve.py:597
    score_threshold,    \* retrieve.py:604
    chunks,             \* the working result set
    keyword_chunks,     \* retrieve.py:624
    semantic_chunks,    \* retrieve.py:626
    filtered_chunks,    \* retrieve.py:663, 700, 712
    rerank_response,    \* what the rerank service answered (retrieve.py:443-469)
    reranked_chunks,    \* retrieve.py:720
    best_chunks,        \* retrieve.py:726
    result,             \* what the request returned or raised
    calls,              \* the external calls issued so far, in order
    call,               \* activation record of a single function call
    ret                 \* its return value

vars == <<pc, normalized_intent, resolved_top_k, score_threshold, chunks,
          keyword_chunks, semantic_chunks, filtered_chunks, rerank_response,
          reranked_chunks, best_chunks, result, calls, call, ret>>

retrieval_vars == <<pc, normalized_intent, resolved_top_k, score_threshold,
                    chunks, keyword_chunks, semantic_chunks, filtered_chunks,
                    rerank_response, reranked_chunks, best_chunks, result, calls>>

(***************************************************************************)
(* Bounds of the model                                                     *)
(***************************************************************************)
NChunks == 3          \* points in the vector index / rows in kb_chunks
MaxResults == 2       \* longest answer of one search call
MaxTopK == 2          \* largest top_k a caller passes
MaxFileChunks == 2    \* chunks of the raw source file of an intent
QueryTokens == 2      \* non-stopword tokens of the rewritten query
FusionIds == 3        \* identifiers in a reciprocal_rank_fusion call
FusionLen == 3        \* longest list in a reciprocal_rank_fusion call
RerankLen == 2        \* longest list in a rerank_chunks_lexical call

(***************************************************************************)
(* Program constants (hundredths where the source has a float)             *)
(***************************************************************************)
DEFAULT_RAG_SCORE_THRESHOLD == 45
DEFAULT_RAG_LEXICAL_RERANK_CANDIDATES == 12
DEFAULT_RAG_LEXICAL_WEIGHT == 35
DEFAULT_RRF_K == 60
FILE_CHUNK_SCORE == 100

(***************************************************************************)
(* Python helpers                                                          *)
(***************************************************************************)
Min(a, b) == IF a < b THEN a ELSE b
Max(a, b) == IF a > b THEN a ELSE b

\* s[:n] of a Python list
PySlice(s, n) ==
    LET k == IF n >= 0 THEN Min(n, Len(s)) ELSE Max(0, Len(s) + n)
    IN  SubSeq(s, 1, k)

\* tuple comparison of Python: x > y for two tuples of numbers of equal length
TupleGt(x, y) ==
    \E k \in 1..Len(x) : x[k] > y[k] /\ \A m \in 1..(k - 1) : x[m] = y[m]

\* sorted(s, key=..., reverse=True), key[i] being the key of s[i]: descending
\* and stable (elements of equal key keep their input order)
SortDescStable(s, key) ==
    LET n == Len(s)
        pos(i) == 1 + Cardinality({j \in 1..n :
                        \/ TupleGt(key[j], key[i])
                        \/ (j < i /\ ~TupleGt(key[i], key[j]))})
    IN  [p \in 1..n |-> s[CHOOSE i \in 1..n : pos(i) = p]]

Range(s) == {s[i] : i \in 1..Len(s)}

\* the sequences over S without repetition, of length at most n
DupFreeSeqs(S, n) ==
    UNION {{s \in [1..k -> S] : \A i, j \in 1..k : i # j => s[i] # s[j]} : k \in 0..n}

Ids(s) == [i \in 1..Len(s) |-> s[i].point_id]

\* the first position of identifier id in list s, 0 when absent
RankOf(s, id) ==
    IF \E i \in 1..Len(s) : s[i].point_id = id
    THEN CHOOSE i \in 1..Len(s) :
            s[i].point_id = id /\ \A j \in 1..(i - 1) : s[j].point_id # id
    ELSE 0

(***************************************************************************)
(* RetrievedChunk (retrieve.py:141-146).  point_id and score are the       *)
(* fields of the dataclass; the other fields abstract the payload and the  *)
(* content: ov is the number of query-token occurrences the content holds, *)
(* m whether source_matches_intent(payload, intent) holds, blank whether   *)
(* the content is empty after stripping, src the list the object came from.*)
(***************************************************************************)
RetrievedChunk(id, sc, o, match, bl, from) ==
    [point_id |-> id, score |-> sc, ov |-> o, m |-> match, blank |-> bl, src |-> from]

\* @dataclass(frozen=True): assigning to a field raises FrozenInstanceError
RetrievedChunkFrozen == TRUE

(***************************************************************************)
(* reciprocal_rank_fusion (retrieve.py:420-437)                            *)
(***************************************************************************)
rrf_k == DEFAULT_RRF_K

RECURSIVE RRFScale(_)
RRFScale(n) == IF n = 0 THEN 1 ELSE (rrf_k + n) * RRFScale(n - 1)

\* 1.0 / (rrf_k + rank), times the common denominator RRFScale(maxRank)
RRFContribution(rank, maxRank) == RRFScale(maxRank) \div (rrf_k + rank)

\* fused_scores[chunk_id] after both loops
FusedScoreVectorOnly(id, vector_results, keyword_results) ==
    LET maxRank == Max(Len(vector_results), Len(keyword_results))
    IN  IF RankOf(vector_results, id) > 0
        THEN RRFContribution(RankOf(vector_results, id), maxRank)
        ELSE RRFContribution(RankOf(keyword_results, id), maxRank)
FusedScore(id, vector_results, keyword_results) ==
    LET maxRank == Max(Len(vector_results), Len(keyword_results))
        part(s) == IF RankOf(s, id) > 0 THEN RRFContribution(RankOf(s, id), maxRank) ELSE 0
    IN  part(vector_results) + part(keyword_results)

\* the keys of fused_scores in insertion order
FusedIds(vector_results, keyword_results) ==
    Ids(vector_results)
        \o Ids(SelectSeq(keyword_results,
                         LAMBDA c : RankOf(vector_results, c.point_id) = 0))

\* by_id[chunk_id]: the vector list's object, else the keyword list's
ByIdKeywordFirst(id, vector_results, keyword_results) ==
    IF RankOf(keyword_results, id) > 0
    THEN keyword_results[RankOf(keyword_results, id)]
    ELSE vector_results[RankOf(vector_results, id)]
ById(id, vector_results, keyword_results) ==
    IF RankOf(vector_results, id) > 0
    THEN vector_results[RankOf(vector_results, id)]
    ELSE keyword_results[RankOf(keyword_results, id)]

RRFTruncateNone(ordered_ids, top_k) == ordered_ids
RRFTruncate(ordered_ids, top_k) == PySlice(ordered_ids, top_k)

reciprocal_rank_fusion(vector_results, keyword_results, top_k) ==
    LET ids == FusedIds(vector_results, keyword_results)
        key == [i \in 1..Len(ids) |-> <<FusedScore(ids[i], vector_results, keyword_results)>>]
        ordered_ids == SortDescStable(ids, key)
        kept == RRFTruncate(ordered_ids, top_k)
    IN  [i \in 1..Len(kept) |-> ById(kept[i], vector_results, keyword_results)]

(***************************************************************************)
(* rerank_chunks_lexical (retrieve.py:320-343)                             *)
(***************************************************************************)
\* max(0.0, min(1.0, lexical_weight))
ClampWeight(w) == Max(0, Min(100, w))

\* _lexical_overlap_score (retrieve.py:320-328), times len(query_tokens):
\* the query-token occurrences found in the content, 0 for an empty query
lexical_overlap_score(chunk, n_tokens) == IF n_tokens = 0 THEN 0 ELSE chunk.ov

\* semantic_weight * chunk.score + lexical_weight * lexical_score
\* (retrieve.py:339), times 100 * 100 * max(1, len(query_tokens))
CombinedScoreSemanticOnly(chunk, n_tokens, weight) ==
    100 * chunk.score * Max(1, n_tokens)
CombinedScore(chunk, n_tokens, weight) ==
    LET lexical_weight == ClampWeight(weight)
        semantic_weight == 100 - lexical_weight
    IN  semantic_weight * chunk.score * Max(1, n_tokens)
            + lexical_weight * 100 * lexical_overlap_score(chunk, n_tokens)

\* the sort key of retrieve.py:342
RerankKey(chunk, n_tokens, weight) ==
    <<CombinedScore(chunk, n_tokens, weight), lexical_overlap_score(chunk, n_tokens), chunk.score>>

rerank_chunks_lexical_unsorted(n_tokens, weight, cs) == cs
rerank_chunks_lexical(n_tokens, weight, cs) ==
    SortDescStable(cs, [i \in 1..Len(cs) |-> RerankKey(cs[i], n_tokens, weight)])

(***************************************************************************)
(* rerank_chunks_cross_encoder (retrieve.py:440-475).  resp is what the    *)
(* environment gives the call: no COHERE_API_KEY, a failed request, or a   *)
(* response body.  results holds the "index" of each item of the body's    *)
(* "results", [has |-> FALSE] for an item without one.                     *)
(***************************************************************************)
Returned(v) == [kind |-> "return", value |-> v, exc |-> ""]
Raised(e) == [kind |-> "raise", value |-> <<>>, exc |-> e]

NoIndex == [has |-> FALSE, v |-> 0]
Index(i) == [has |-> TRUE, v |-> i]

\* chunks[i] of a Python list of length n: i in -n .. n-1
PyIndexValid(i, n) == -n <= i /\ i < n
PyIndexPos(i, n) == IF i >= 0 THEN i + 1 ELSE n + i + 1

rerank_chunks_cross_encoder(n_tokens, weight, cs, resp) ==
    IF cs = <<>> THEN Returned(cs)
    ELSE IF resp.kind = "no_credential" THEN Returned(rerank_chunks_lexical(n_tokens, weight, cs))
    ELSE IF resp.kind \in {"network_error", "not_json"}
         THEN Returned(rerank_chunks_lexical(n_tokens, weight, cs))
    ELSE IF resp.kind = "json_not_object" THEN Raised("AttributeError")
    ELSE IF resp.results = <<>> THEN Returned(rerank_chunks_lexical(n_tokens, weight, cs))
    ELSE LET items == SelectSeq(resp.results, LAMBDA it : it.has)
         IN  IF \E k \in 1..Len(items) : ~PyIndexValid(items[k].v, Len(cs))
             THEN Raised("IndexError")
             ELSE LET picked == [k \in 1..Len(items) |-> PyIndexPos(items[k].v, Len(cs))]
                      unseen == SelectSeq([i \in 1..Len(cs) |-> i],
                                          LAMBDA i : i \notin Range(picked))
                      order == picked \o unseen
                  IN  Returned([k \in 1..Len(order) |-> cs[order[k]]])

\* the answers of the rerank service for n documents
RerankResponses(n) ==
    {[kind |-> k, results |-> <<>>] :
        k \in {"no_credential", "network_error", "not_json", "json_not_object", "json_object"}}
    \cup {[kind |-> "json_object", results |-> [i \in 1..Len(s) |-> Index(s[i])]] :
            s \in DupFreeSeqs(0..(n - 1), n) \ {<<>>}}
    \cup {[kind |-> "json_object", results |-> r] :
            r \in {<<NoIndex>>, <<Index(n)>>, <<Index(-1)>>, <<Index(0), Index(0)>>}}

(***************************************************************************)
(* The index, the chunk store and the source files, as one request sees    *)
(* them.  Point i of the index and row i of kb_chunks hold the same        *)
(* content; the vector list carries the cosine score and the full payload, *)
(* the lexical list the BM25 score and a payload without "intent".         *)
(***************************************************************************)
VecScore(i) == CASE i = 1 -> 95 [] i = 2 -> 75 [] i = 3 -> 30 [] OTHER -> 60
Overlap(i) == CASE i = 1 -> 0 [] i = 2 -> QueryTokens [] i = 3 -> 1 [] OTHER -> 0
VecMatches(i) == CASE i = 1 -> FALSE [] i = 2 -> TRUE [] i = 3 -> FALSE [] OTHER -> TRUE
KwMatches(i) == CASE i = 2 -> FALSE [] i = 3 -> FALSE [] OTHER -> VecMatches(i)
Blank(i) == i > 3

VectorChunk(i) == RetrievedChunk(i, VecScore(i), Overlap(i), VecMatches(i), Blank(i), "vector")
KeywordChunk(i) == RetrievedChunk(i, 100 + 100 * Overlap(i), Overlap(i), KwMatches(i), Blank(i), "keyword")
\* load_intent_chunks (retrieve.py:553-566): score 1.0, payload intent = intent
FileChunk(j) == RetrievedChunk(NChunks + j, FILE_CHUNK_SCORE, j % (QueryTokens + 1), TRUE, FALSE, "file")

\* retrieval_limit (retrieve.py:601)
retrieval_limit(top_k) == Max(top_k, DEFAULT_RAG_LEXICAL_RERANK_CANDIDATES)

\* the "result" array of a points/search response: at most `limit` points
QdrantAnswers(limit) ==
    {[i \in 1..Len(ids) |-> VectorChunk(ids[i])] :
        ids \in DupFreeSeqs(1..NChunks, Min(limit, MaxResults))}

\* the rows that score above zero, in score order: a row scores above zero
\* exactly when its content holds a query term
Bm25Scored ==
    {[i \in 1..Len(ids) |-> KeywordChunk(ids[i])] :
        ids \in DupFreeSeqs({i \in 1..NChunks : Overlap(i) > 0}, MaxResults)}

\* the chunks of the source file whose name matches the intent
FileChunks(n) == [j \in 1..n |-> FileChunk(j)]

(***************************************************************************)
(* search_qdrant (retrieve.py:176-218): the client drops the points        *)
(* scoring below the threshold                                             *)
(***************************************************************************)
NoThreshold == [has |-> FALSE, v |-> 0]
Threshold(v) == [has |-> TRUE, v |-> v]

search_qdrant(answer, threshold) ==
    SelectSeq(answer, LAMBDA c : ~(threshold.has /\ c.score < threshold.v))

\* keyword_search_bm25 (retrieve.py:408-417): scored[:top_k]
keyword_search_bm25(scored, top_k) == PySlice(scored, top_k)

\* INTENT_SCORE_THRESHOLD_FALLBACKS.get(normalized_intent or "")
INTENT_SCORE_THRESHOLD_FALLBACKS_AnyIntent(intent) == Threshold(0)
INTENT_SCORE_THRESHOLD_FALLBACKS(intent) ==
    IF intent \in {"audience", "overview", "solutions"} THEN Threshold(0) ELSE NoThreshold

\* retrieve.py:634
ThresholdFallbackAppliesAnyOverride(intent, threshold) ==
    INTENT_SCORE_THRESHOLD_FALLBACKS(intent).has
ThresholdFallbackApplies(intent, threshold) ==
    /\ INTENT_SCORE_THRESHOLD_FALLBACKS(intent).has
    /\ INTENT_SCORE_THRESHOLD_FALLBACKS(intent).v # threshold

\* [chunk for chunk in chunks if source_matches_intent(chunk.payload, intent)]
FilterByIntent(cs) == SelectSeq(cs, LAMBDA c : c.m)

\* retrieve.py:673: `if not filtered_chunks and semantic_chunks`
KeepSemanticDropped(filtered, semantic) == FALSE
KeepSemantic(filtered, semantic) == filtered = <<>> /\ semantic # <<>>

\* RAG_LEXICAL_WEIGHT of the request
lexical_weight == DEFAULT_RAG_LEXICAL_WEIGHT

\* build_rag_context (retrieve.py:221-237): one numbered entry per chunk whose
\* compacted content is not empty
build_rag_context(cs) ==
    LET kept == SelectSeq([i \in 1..Len(cs) |-> i], LAMBDA i : ~cs[i].blank)
    IN  [k \in 1..Len(kept) |-> [index |-> kept[k], point_id |-> cs[kept[k]].point_id]]

(***************************************************************************)
(* Single calls of the pure functions                                      *)
(***************************************************************************)
Pending == [kind |-> "pending"]
NoCall == [fn |-> "none"]

RetrievalIdle ==
    /\ pc = "idle"
    /\ normalized_intent = "none"
    /\ resolved_top_k = 1
    /\ score_threshold = DEFAULT_RAG_SCORE_THRESHOLD
    /\ chunks = <<>>
    /\ keyword_chunks = <<>>
    /\ semantic_chunks = <<>>
    /\ filtered_chunks = <<>>
    /\ rerank_response = [kind |-> "none", results |-> <<>>]
    /\ reranked_chunks = <<>>
    /\ best_chunks = <<>>
    /\ result = [kind |-> "pending", exc |-> "", entries |-> <<>>]
    /\ calls = <<>>

\* the lists handed to reciprocal_rank_fusion: identifiers are unique within a
\* list (point ids of one search answer, row ids of one query)
FusionVector(ids) == [i \in 1..Len(ids) |-> RetrievedChunk(ids[i], 90 - ids[i], 0, FALSE, FALSE, "vector")]
FusionKeyword(ids) == [i \in 1..Len(ids) |-> RetrievedChunk(ids[i], 300 + ids[i], 1, FALSE, FALSE, "keyword")]

InitFusion ==
    /\ RetrievalIdle
    /\ ret = Pending
    /\ \E v \in DupFreeSeqs(1..FusionIds, FusionLen),
          k \in DupFreeSeqs(1..FusionIds, FusionLen),
          t \in 1..(FusionLen + 1) :
            call = [fn |-> "reciprocal_rank_fusion",
                    vector_results |-> FusionVector(v),
                    keyword_results |-> FusionKeyword(k),
                    top_k |-> t]

CallFusion ==
    /\ call.fn = "reciprocal_rank_fusion"
    /\ ret = Pending
    /\ ret' = [kind |-> "return",
               value |-> reciprocal_rank_fusion(call.vector_results,
                                                call.keyword_results, call.top_k)]
    /\ UNCHANGED <<call, retrieval_vars>>

NextFusion == CallFusion

SpecFusion == InitFusion /\ [][NextFusion]_vars

(***************************************************************************)
(* Claims about reciprocal_rank_fusion, checked under SpecFusion           *)
(***************************************************************************)
FusionReturned == call.fn = "reciprocal_rank_fusion" /\ ret.kind = "return"

FusionInputIds == Range(Ids(call.vector_results)) \cup Range(Ids(call.keyword_results))

InBoth(id) == RankOf(call.vector_results, id) > 0 /\ RankOf(call.keyword_results, id) > 0
InOne(id) == (RankOf(call.vector_results, id) > 0) # (RankOf(call.keyword_results, id) > 0)
BestRank(id) == Min(RankOf(call.vector_results, id), RankOf(call.keyword_results, id))
OnlyRank(id) == Max(RankOf(call.vector_results, id), RankOf(call.keyword_results, id))

\* the fused score the specification gives an identifier, as a fraction n / d
SpecFused(id) ==
    LET rv == RankOf(call.vector_results, id)
        rk == RankOf(call.keyword_results, id)
    IN  IF rv > 0 /\ rk > 0
        THEN [n |-> 2 * DEFAULT_RRF_K + rv + rk, d |-> (DEFAULT_RRF_K + rv) * (DEFAULT_RRF_K + rk)]
        ELSE [n |-> 1, d |-> DEFAULT_RRF_K + Max(rv, rk)]
FracGeq(x, y) == x.n * y.d >= y.n * x.d

\* C9: an identifier present in both lists has a strictly higher fused score
\* than, and is returned before, every identifier present in one list only at
\* a rank no better than the better of its two ranks.
C9_BothListsOutrankSingle ==
    FusionReturned =>
        \A a, b \in FusionInputIds :
            (InBoth(a) /\ InOne(b) /\ OnlyRank(b) >= BestRank(a)) =>
                /\ FusedScore(a, call.vector_results, call.keyword_results)
                     > FusedScore(b, call.vector_results, call.keyword_results)
                /\ RankOf(ret.value, b) > 0 =>
                     /\ RankOf(ret.value, a) > 0
                     /\ RankOf(ret.value, a) < RankOf(ret.value, b)

\* a call whose answer holds an identifier of both lists ahead of one that
\* sits at rank 1 of a single list
C9_Witness ==
    /\ FusionReturned
    /\ \E a, b \in FusionInputIds :
          /\ InBoth(a) /\ InOne(b)
          /\ BestRank(a) = 1 /\ OnlyRank(b) = 1
          /\ RankOf(ret.value, a) = 1
          /\ RankOf(ret.value, b) > 1

\* C10: at most top_k chunks, pairwise distinct identifiers, non-increasing
\* fused score (the sum of 1/(K + rank) over the lists holding the identifier),
\* identifiers of a single list included, every chunk taken from an input list.
C10_FusionOutput ==
    FusionReturned =>
        LET out == ret.value
        IN  /\ Len(out) = Min(call.top_k, Cardinality(FusionInputIds))
            /\ \A i, j \in 1..Len(out) : i # j => out[i].point_id # out[j].point_id
            /\ \A i, j \in 1..Len(out) :
                  i < j => FracGeq(SpecFused(out[i].point_id), SpecFused(out[j].point_id))
            /\ \A i \in 1..Len(out) :
                  /\ out[i] \in Range(call.vector_results) \cup Range(call.keyword_results)
                  /\ \A id \in FusionInputIds \ Range(Ids(out)) :
                        FracGeq(SpecFused(out[i].point_id), SpecFused(id))

\* a truncated answer that still holds an identifier found in one list only
C10_Witness ==
    /\ FusionReturned
    /\ Len(ret.value) = call.top_k
    /\ Cardinality(FusionInputIds) > call.top_k
    /\ \E i \in 1..Len(ret.value) : InOne(ret.value[i].point_id)
    /\ \E i \in 1..Len(ret.value) : InBoth(ret.value[i].point_id)

(***************************************************************************)
(* Single calls of rerank_chunks_lexical                                   *)
(***************************************************************************)
\* RAG_LEXICAL_WEIGHT as configured, before clamping
LexicalWeights == {-50, DEFAULT_RAG_LEXICAL_WEIGHT, 70, 100, 150}
\* initial retrieval scores: cosine scores, and a BM25 score above 1.0
RerankScores == {-100, 0, 75, 100, 400}

RerankInputs(n_tokens) ==
    UNION {[1..k -> [score : RerankScores, ov : 0..n_tokens]] : k \in 0..RerankLen}

InitRerank ==
    /\ RetrievalIdle
    /\ ret = Pending
    /\ \E n \in 0..QueryTokens, w \in LexicalWeights :
         \E cs \in RerankInputs(n) :
            call = [fn |-> "rerank_chunks_lexical",
                    n_tokens |-> n,
                    weight |-> w,
                    chunks |-> [i \in 1..Len(cs) |->
                                  RetrievedChunk(i, cs[i].score, cs[i].ov, FALSE, FALSE, "vector")]]

CallRerank ==
    /\ call.fn = "rerank_chunks_lexical"
    /\ ret = Pending
    /\ ret' = [kind |-> "return",
               value |-> rerank_chunks_lexical(call.n_tokens, call.weight, call.chunks)]
    /\ UNCHANGED <<call, retrieval_vars>>

NextRerank == CallRerank

SpecRerank == InitRerank /\ [][NextRerank]_vars

RerankReturned == call.fn = "rerank_chunks_lexical" /\ ret.kind = "return"

\* candidate a holds every query token, candidate b none
FullVersusNone(a, b) ==
    /\ call.n_tokens >= 1
    /\ a.ov = call.n_tokens
    /\ b.ov = 0

\* C8 as stated: with a lexical weight of at least 0.7 a candidate holding the
\* query tokens is ordered before one holding none, whatever the two scores.
C8_AsStated ==
    (RerankReturned /\ ClampWeight(call.weight) >= 70) =>
        \A i, j \in 1..Len(call.chunks) :
            FullVersusNone(call.chunks[i], call.chunks[j]) =>
                RankOf(ret.value, i) < RankOf(ret.value, j)

\* C8 amended: the same order holds whenever the score of the candidate
\* without overlap exceeds the other score by at most w / (1 - w), which
\* covers every pair of scores in [-1, 1].
C8_Amended ==
    (RerankReturned /\ ClampWeight(call.weight) >= 70) =>
        \A i, j \in 1..Len(call.chunks) :
            LET a == call.chunks[i]
                b == call.chunks[j]
            IN  (/\ FullVersusNone(a, b)
                 /\ (100 - ClampWeight(call.weight)) * (b.score - a.score)
                        <= ClampWeight(call.weight) * 100) =>
                    RankOf(ret.value, i) < RankOf(ret.value, j)

\* the candidate without overlap came first and scored higher, and the
\* reranker moved the overlapping candidate ahead of it
C8_Witness ==
    /\ RerankReturned
    /\ ClampWeight(call.weight) = 70
    /\ Len(call.chunks) = 2
    /\ FullVersusNone(call.chunks[2], call.chunks[1])
    /\ call.chunks[1].score = 100
    /\ call.chunks[2].score = -100
    /\ ret.value[1].point_id = 2

(***************************************************************************)
(* retrieve_rag_context (retrieve.py:590-740), one action per external     *)
(* call or decision of the request                                         *)
(***************************************************************************)
Intents == {"none", "audience", "formats"}
ScoreThresholds == {DEFAULT_RAG_SCORE_THRESHOLD, 0}

NoResult == [kind |-> "pending", exc |-> "", entries |-> <<>>]
Context(entries) == [kind |-> "context", exc |-> "", entries |-> entries]
Raise(e) == [kind |-> "raise", exc |-> e, entries |-> <<>>]

LogCall(fn, threshold, intent, count) ==
    Append(calls, [fn |-> fn, threshold |-> threshold, intent |-> intent, count |-> count])

Init ==
    /\ pc = "embed_query"
    /\ normalized_intent \in Intents
    /\ resolved_top_k \in 1..MaxTopK
    /\ score_threshold \in ScoreThresholds
    /\ chunks = <<>>
    /\ keyword_chunks = <<>>
    /\ semantic_chunks = <<>>
    /\ filtered_chunks = <<>>
    /\ rerank_response = [kind |-> "none", results |-> <<>>]
    /\ reranked_chunks = <<>>
    /\ best_chunks = <<>>
    /\ result = NoResult
    /\ calls = <<>>
    /\ call = NoCall
    /\ ret = Pending

\* an external call fails: the exception leaves retrieve_rag_context
Fail(fn, e) ==
    /\ pc' = "done"
    /\ result' = Raise(e)
    /\ calls' = Append(calls, [fn |-> fn, threshold |-> NoThreshold,
                               intent |-> "none", count |-> -1])
    /\ UNCHANGED <<normalized_intent, resolved_top_k, score_threshold, chunks,
                   keyword_chunks, semantic_chunks, filtered_chunks, rerank_response,
                   reranked_chunks, best_chunks, call, ret>>

\* retrieve.py:596
EmbedQuery ==
    /\ pc = "embed_query"
    /\ \/ /\ pc' = "primary_vector"
          /\ calls' = LogCall("embed_query", NoThreshold, "none", 1)
          /\ UNCHANGED <<normalized_intent, resolved_top_k, score_threshold, chunks,
                         keyword_chunks, semantic_chunks, filtered_chunks,
                         rerank_response, reranked_chunks, best_chunks, result, call, ret>>
       \/ Fail("embed_query", "RuntimeError")

\* retrieve.py:623
PrimaryVector ==
    /\ pc = "primary_vector"
    /\ \/ \E answer \in QdrantAnswers(retrieval_limit(resolved_top_k)) :
            LET found == search_qdrant(answer, Threshold(score_threshold))
            IN  /\ chunks' = found
                /\ calls' = LogCall("search_qdrant", Threshold(score_threshold),
                                    normalized_intent, Len(found))
                /\ pc' = "primary_lexical"
                /\ UNCHANGED <<normalized_intent, resolved_top_k, score_threshold,
                               keyword_chunks, semantic_chunks, filtered_chunks,
                               rerank_response, reranked_chunks, best_chunks, result,
                               call, ret>>
       \/ Fail("search_qdrant", "URLError")

\* where the request goes once `chunks` is empty after the primary search
AfterEmptyPrimary ==
    IF ThresholdFallbackApplies(normalized_intent, score_threshold)
    THEN "threshold_fallback" ELSE "empty_retry"

\* retrieve.py:624-634
PrimaryLexical ==
    /\ pc = "primary_lexical"
    /\ \/ \E scored \in Bm25Scored :
            LET found == keyword_search_bm25(scored, resolved_top_k)
                fused == reciprocal_rank_fusion(chunks, found, resolved_top_k)
            IN  /\ keyword_chunks' = found
                /\ chunks' = fused
                /\ semantic_chunks' = fused
                /\ calls' = LogCall("keyword_search_bm25", NoThreshold,
                                    normalized_intent, Len(found))
                /\ pc' = IF fused # <<>> THEN "intent_filter" ELSE AfterEmptyPrimary
                /\ UNCHANGED <<normalized_intent, resolved_top_k, score_threshold,
                               filtered_chunks, rerank_response, reranked_chunks,
                               best_chunks, result, call, ret>>
       \/ Fail("keyword_search_bm25", "OperationalError")

\* retrieve.py:640-651
ThresholdFallback ==
    /\ pc = "threshold_fallback"
    /\ \/ \E answer \in QdrantAnswers(retrieval_limit(resolved_top_k)) :
            LET fallback_threshold == INTENT_SCORE_THRESHOLD_FALLBACKS(normalized_intent)
                found == search_qdrant(answer, fallback_threshold)
            IN  /\ chunks' = found
                /\ calls' = LogCall("search_qdrant", fallback_threshold,
                                    normalized_intent, Len(found))
                /\ pc' = IF found # <<>> THEN "intent_filter" ELSE "empty_retry"
                /\ UNCHANGED <<normalized_intent, resolved_top_k, score_threshold,
                               keyword_chunks, semantic_chunks, filtered_chunks,
                               rerank_response, reranked_chunks, best_chunks, result,
                               call, ret>>
       \/ Fail("search_qdrant", "URLError")

\* retrieve.py:656
EmptyRetry ==
    /\ pc = "empty_retry"
    /\ \/ \E answer \in QdrantAnswers(retrieval_limit(resolved_top_k)) :
            LET found == search_qdrant(answer, NoThreshold)
            IN  /\ chunks' = found
                /\ calls' = LogCall("search_qdrant", NoThreshold,
                                    normalized_intent, Len(found))
                /\ pc' = "intent_filter"
                /\ UNCHANGED <<normalized_intent, resolved_top_k, score_threshold,
                               keyword_chunks, semantic_chunks, filtered_chunks,
                               rerank_response, reranked_chunks, best_chunks, result,
                               call, ret>>
       \/ Fail("search_qdrant", "URLError")

\* retrieve.py:662-682 and 718-719
IntentFilter ==
    /\ pc = "intent_filter"
    /\ LET filtered == FilterByIntent(chunks)
       IN  IF normalized_intent = "none"
           THEN /\ pc' = "rerank"
                /\ UNCHANGED <<chunks, filtered_chunks>>
           ELSE IF KeepSemantic(filtered, semantic_chunks)
           THEN /\ pc' = "rerank"
                /\ chunks' = semantic_chunks
                /\ filtered_chunks' = filtered
           ELSE IF filtered = <<>>
           THEN /\ pc' = "unfiltered"
                /\ filtered_chunks' = filtered
                /\ UNCHANGED chunks
           ELSE /\ pc' = "rerank"
                /\ chunks' = filtered
                /\ filtered_chunks' = filtered
    /\ UNCHANGED <<normalized_intent, resolved_top_k, score_threshold, keyword_chunks,
                   semantic_chunks, rerank_response, reranked_chunks, best_chunks,
                   result, calls, call, ret>>

\* retrieve.py:700-710 and 718-719: the filter applied to the unfiltered
\* search's answer
AfterUnfiltered(found) ==
    LET filtered == FilterByIntent(found)
    IN  /\ filtered_chunks' = filtered
        /\ chunks' = IF filtered # <<>> THEN filtered ELSE found
        /\ pc' = IF filtered # <<>> THEN "rerank" ELSE "file_fallback"

\* retrieve.py:683-689
Unfiltered ==
    /\ pc = "unfiltered"
    /\ \/ \E answer \in QdrantAnswers(retrieval_limit(resolved_top_k)) :
            LET found == search_qdrant(answer, Threshold(score_threshold))
            IN  /\ calls' = LogCall("search_qdrant", Threshold(score_threshold),
                                    "none", Len(found))
                /\ IF found = <<>>
                   THEN /\ pc' = "unfiltered_retry"
                        /\ chunks' = found
                        /\ UNCHANGED filtered_chunks
                   ELSE AfterUnfiltered(found)
                /\ UNCHANGED <<normalized_intent, resolved_top_k, score_threshold,
                               keyword_chunks, semantic_chunks, rerank_response,
                               reranked_chunks, best_chunks, result, call, ret>>
       \/ Fail("search_qdrant", "URLError")

\* retrieve.py:694
UnfilteredRetry ==
    /\ pc = "unfiltered_retry"
    /\ \/ \E answer \in QdrantAnswers(retrieval_limit(resolved_top_k)) :
            LET found == search_qdrant(answer, NoThreshold)
            IN  /\ calls' = LogCall("search_qdrant", NoThreshold, "none", Len(found))
                /\ AfterUnfiltered(found)
                /\ UNCHANGED <<normalized_intent, resolved_top_k, score_threshold,
                               keyword_chunks, semantic_chunks, rerank_response,
                               reranked_chunks, best_chunks, result, call, ret>>
       \/ Fail("search_qdrant", "URLError")

\* retrieve.py:710-719
FileFallback ==
    /\ pc = "file_fallback"
    /\ \E n \in 0..MaxFileChunks :
         LET loaded == FileChunks(n)
             filtered == PySlice(loaded, resolved_top_k)
         IN  /\ filtered_chunks' = filtered
             /\ chunks' = IF filtered # <<>> THEN filtered ELSE chunks
             /\ calls' = LogCall("load_intent_chunks", NoThreshold,
                                 normalized_intent, Len(loaded))
    /\ pc' = "rerank"
    /\ UNCHANGED <<normalized_intent, resolved_top_k, score_threshold, keyword_chunks,
                   semantic_chunks, rerank_response, reranked_chunks, best_chunks,
                   result, call, ret>>

\* retrieve.py:720
Rerank ==
    /\ pc = "rerank"
    /\ \E resp \in RerankResponses(Len(chunks)) :
         LET out == rerank_chunks_cross_encoder(QueryTokens, lexical_weight, chunks, resp)
         IN  /\ chunks = <<>> => resp.kind = "no_credential"
             /\ rerank_response' = resp
             /\ IF out.kind = "raise"
                THEN /\ pc' = "done"
                     /\ result' = Raise(out.exc)
                     /\ UNCHANGED reranked_chunks
                ELSE /\ pc' = "select"
                     /\ reranked_chunks' = out.value
                     /\ UNCHANGED result
    /\ UNCHANGED <<normalized_intent, resolved_top_k, score_threshold, chunks,
                   keyword_chunks, semantic_chunks, filtered_chunks, best_chunks,
                   calls, call, ret>>

\* retrieve.py:726-740: the selection, the write of the focused content into
\* each selected chunk, and build_rag_context
Select ==
    /\ pc = "select"
    /\ LET best == PySlice(reranked_chunks, resolved_top_k)
       IN  /\ best_chunks' = best
           /\ result' = IF best # <<>> /\ RetrievedChunkFrozen
                        THEN Raise("FrozenInstanceError")
                        ELSE Context(build_rag_context(best))
    /\ pc' = "done"
    /\ UNCHANGED <<normalized_intent, resolved_top_k, score_threshold, chunks,
                   keyword_chunks, semantic_chunks, filtered_chunks, rerank_response,
                   reranked_chunks, calls, call, ret>>

Next ==
    \/ EmbedQuery
    \/ PrimaryVector
    \/ PrimaryLexical
    \/ ThresholdFallback
    \/ EmptyRetry
    \/ IntentFilter
    \/ Unfiltered
    \/ UnfilteredRetry
    \/ FileFallback
    \/ Rerank
    \/ Select

Spec == Init /\ [][Next]_vars

(***************************************************************************)
(* Claims about retrieve_rag_context, checked under Spec                   *)
(***************************************************************************)
CallsOf(fn) == {i \in 1..Len(calls) : calls[i].fn = fn}
ExternalCallFailed == \E i \in 1..Len(calls) : calls[i].count < 0
RerankRaised == result.kind = "raise" /\ result.exc \in {"AttributeError", "IndexError"}
EntryIds(entries) == [i \in 1..Len(entries) |-> entries[i].point_id]
NonBlank(cs) == SelectSeq(cs, LAMBDA c : ~c.blank)

\* C1: with an intent set, a non-empty working set that the intent filter
\* empties is kept as it is and handed to reranking, whichever level produced it.
C1_AsStated ==
    [][(/\ pc = "intent_filter"
        /\ normalized_intent # "none"
        /\ chunks # <<>>
        /\ FilterByIntent(chunks) = <<>>)
         => (pc' = "rerank" /\ chunks' = chunks)]_vars

\* C2: once the primary fused search has produced a chunk, search_qdrant has
\* been called exactly once and stays so, and the source files are never read.
C2_NoUnnecessaryFallback ==
    semantic_chunks # <<>> =>
        /\ Cardinality(CallsOf("search_qdrant")) = 1
        /\ CallsOf("load_intent_chunks") = {}

\* a finished request whose primary result none of which matches the intent
C2_Witness ==
    /\ pc = "done"
    /\ normalized_intent # "none"
    /\ semantic_chunks # <<>>
    /\ FilterByIntent(semantic_chunks) = <<>>
    /\ chunks = semantic_chunks
    /\ Cardinality(CallsOf("search_qdrant")) = 1

\* C3: when no external call failed the request returns a context, with one
\* entry per selected chunk whose compacted text is not empty.
C3_AsStated ==
    (pc = "done" /\ ~ExternalCallFailed /\ ~RerankRaised) =>
        /\ result.kind = "context"
        /\ EntryIds(result.entries) = Ids(NonBlank(best_chunks))
        /\ chunks = <<>> => result.entries = <<>>

\* C4: with an intent set, every search empty and n >= 1 chunks in the source
\* file, the context holds the first min(n, top_k) file chunks, each of score 1.0.
C4_AsStated ==
    (/\ pc = "done"
     /\ ~RerankRaised
     /\ normalized_intent # "none"
     /\ \A i \in CallsOf("search_qdrant") \cup CallsOf("keyword_search_bm25") :
            calls[i].count = 0
     /\ \E i \in CallsOf("load_intent_chunks") : calls[i].count >= 1) =>
        \A i \in CallsOf("load_intent_chunks") :
            LET expected == FileChunks(Min(calls[i].count, resolved_top_k))
            IN  /\ Range(Ids(best_chunks)) = Range(Ids(expected))
                /\ \A k \in 1..Len(best_chunks) : best_chunks[k].score = FILE_CHUNK_SCORE
                /\ result.kind = "context"
                /\ Range(EntryIds(result.entries)) = Range(Ids(expected))

\* the searches of the request that carried the intent filter all came back empty
IntentLevelsEmpty ==
    /\ normalized_intent # "none"
    /\ CallsOf("search_qdrant") # {}
    /\ CallsOf("keyword_search_bm25") # {}
    /\ \A i \in 1..Len(calls) : calls[i].intent = normalized_intent => calls[i].count = 0

\* C5: when the intent-filtered levels leave the working set empty, the vector
\* and the lexical search are rerun without intent, and a non-empty unfiltered
\* answer is returned as a non-empty context.
C5_AsStated ==
    (pc = "done" /\ ~ExternalCallFailed /\ ~RerankRaised /\ IntentLevelsEmpty) =>
        /\ \E i \in CallsOf("search_qdrant") : calls[i].intent = "none"
        /\ \E i \in CallsOf("keyword_search_bm25") : calls[i].intent = "none"
        /\ (\E i \in CallsOf("search_qdrant") :
                calls[i].intent = "none" /\ calls[i].count > 0) =>
              (result.kind = "context" /\ result.entries # <<>>)

\* C6: the context holds exactly the first top_k chunks of the reranked
\* surviving set, never more than top_k and none from outside that set.
C6_AsStated ==
    (pc = "done" /\ ~ExternalCallFailed /\ ~RerankRaised) =>
        /\ result.kind = "context"
        /\ EntryIds(result.entries) = Ids(NonBlank(PySlice(reranked_chunks, resolved_top_k)))
        /\ Len(result.entries) <= resolved_top_k
        /\ Range(EntryIds(result.entries)) \subseteq Range(Ids(chunks))

\* what the rerank call was given is no usable answer: no credential, a failed
\* request, a body that is no JSON object, no results, or a result without an
\* index into the documents
RerankAnswerUnusable(resp, n) ==
    \/ resp.kind \in {"no_credential", "network_error", "not_json", "json_not_object"}
    \/ resp.results = <<>>
    \/ \E k \in 1..Len(resp.results) :
          ~resp.results[k].has \/ resp.results[k].v < 0 \/ resp.results[k].v >= n

\* C7: with no credential, a failed request or a malformed answer the rerank
\* call does not raise and returns the lexical reranking of the same candidates.
C7_AsStated ==
    (/\ pc \in {"select", "done"}
     /\ rerank_response.kind # "none"
     /\ RerankAnswerUnusable(rerank_response, Len(chunks))) =>
        /\ ~RerankRaised
        /\ reranked_chunks = rerank_chunks_lexical(QueryTokens, lexical_weight, chunks)

(***************************************************************************)
(* embed_texts (ingest.py:97-215), one action per request to the embedding *)
(* service.  `call` is the activation record: texts is len(texts) (text i  *)
(* is input i), batch_size the EMBEDDING_BATCH_SIZE of the environment,    *)
(* attempt the loop variable, requests the "input" of every POST issued,   *)
(* outcomes what each POST met, error_history the list of line 112.        *)
(***************************************************************************)
DEFAULT_EMBEDDING_MAX_RETRIES == 2

Unset == [has |-> FALSE, v |-> 0]
EnvInt(v) == [has |-> TRUE, v |-> v]

\* attempts = max_retries + 1 (ingest.py:113)
AttemptsNoFirst(max_retries) == max_retries
Attempts(max_retries) == max_retries + 1

\* retryable = exc.code == 429 or 500 <= exc.code < 600 (ingest.py:141)
RetryableAnyError(code) == code >= 400
Retryable(code) == code = 429 \/ (500 <= code /\ code < 600)

\* what one POST can meet: an HTTPError with or without a body, a URLError,
\* a TimeoutError, a body that is no JSON (request_json, ingest.py:46), a
\* JSON body that is no object, or an object whose "data" holds `items`
EmbeddingFailure(kind, code, body) ==
    [kind |-> kind, code |-> code, body |-> body, items |-> <<>>]
EmbeddingResponse(items) ==
    [kind |-> "response", code |-> 200, body |-> "", items |-> items]

\* the vector the service computes at request `attempt` for input i
ServiceVector(attempt, i) == <<attempt, i>>
Item(attempt, i) == [has |-> TRUE, embedding |-> ServiceVector(attempt, i)]
\* an item of "data" without an "embedding" key
ItemWithoutEmbedding == [has |-> FALSE, embedding |-> <<>>]

EmbeddingItems(attempt, n) ==
    {[i \in 1..len |-> IF i = 1 /\ bare THEN ItemWithoutEmbedding ELSE Item(attempt, i)] :
        len \in {n - 1, n, n + 1}, bare \in BOOLEAN}

EmbeddingOutcomes(attempt, n) ==
    {EmbeddingFailure("http", 400, "bad request"), EmbeddingFailure("http", 404, ""),
     EmbeddingFailure("http", 429, ""), EmbeddingFailure("http", 500, "model unavailable"),
     EmbeddingFailure("urlerror", 0, ""), EmbeddingFailure("timeout", 0, ""),
     EmbeddingFailure("invalid_json", 200, ""), EmbeddingFailure("json_not_object", 200, "")}
    \cup {EmbeddingResponse(items) : items \in EmbeddingItems(attempt, n)}

\* one entry of error_history (ingest.py:143-146, 171)
HistoryEntry(attempt, attempts, o) ==
    [attempt |-> attempt, attempts |-> attempts, kind |-> o.kind, code |-> o.code,
     body |-> o.body]

EmbedRaised(e, detail) == [kind |-> "raise", value |-> <<>>, exc |-> e, detail |-> detail]
NoDetail ==
    [status |-> 0, model |-> FALSE, endpoint |-> FALSE, body |-> "",
     after_attempts |-> 0, history |-> <<>>]

\* the message of the RuntimeError of ingest.py:157-167 and 181-188: status
\* is the code in "failed (code)", 0 when the message has none;
\* after_attempts the n of "after n attempt(s)", 0 when the message has none
FailureDetailCountsRetries(o, attempt, attempts, history) ==
    [status |-> IF o.kind = "http" THEN o.code ELSE 0,
     model |-> TRUE,
     endpoint |-> TRUE,
     body |-> o.body,
     after_attempts |-> IF attempts > 1 THEN attempt - 1 ELSE 0,
     history |-> history]
FailureDetail(o, attempt, attempts, history) ==
    [status |-> IF o.kind = "http" THEN o.code ELSE 0,
     model |-> TRUE,
     endpoint |-> TRUE,
     body |-> o.body,
     after_attempts |-> IF attempts > 1 THEN attempt ELSE 0,
     history |-> history]

\* ingest.py:201-215 on the response of the attempt that succeeded
EmbedParse(o, n) ==
    IF o.kind = "json_not_object" THEN EmbedRaised("AttributeError", NoDetail)
    ELSE LET embeddings == [i \in 1..Len(o.items) |->
                               IF o.items[i].has THEN o.items[i].embedding ELSE <<>>]
         IN  IF Len(embeddings) # n
             THEN EmbedRaised("RuntimeError: Embedding response size mismatch", NoDetail)
             ELSE Returned(embeddings)

\* what the loop body of ingest.py:124-199 leaves: Pending when it goes on
AttemptResult(o, attempt, attempts, history, n) ==
    CASE o.kind \in {"response", "json_not_object"} -> EmbedParse(o, n)
      [] o.kind = "invalid_json" -> EmbedRaised("JSONDecodeError", NoDetail)
      [] o.kind = "http" ->
            IF ~Retryable(o.code) \/ attempt = attempts
            THEN EmbedRaised("RuntimeError", FailureDetail(o, attempt, attempts, history))
            ELSE Pending
      [] OTHER ->
            IF attempt = attempts
            THEN EmbedRaised("RuntimeError", FailureDetail(o, attempt, attempts, history))
            ELSE Pending

MaxTexts == 2         \* most texts handed to one embed_texts call
MaxRetries == 2       \* largest EMBEDDING_MAX_RETRIES configured

BatchSizes == {Unset, EnvInt(0), EnvInt(1)}

InitEmbed ==
    /\ RetrievalIdle
    /\ ret = Pending
    /\ \E n \in 0..MaxTexts, r \in (-1)..MaxRetries, b \in BatchSizes :
          call = [fn |-> "embed_texts", texts |-> n, max_retries |-> r,
                  batch_size |-> b, attempt |-> 0, requests |-> <<>>,
                  outcomes |-> <<>>, error_history |-> <<>>]

\* ingest.py:98-99
EmbedNoTexts ==
    /\ call.fn = "embed_texts"
    /\ ret = Pending
    /\ call.texts = 0
    /\ ret' = Returned(<<>>)
    /\ UNCHANGED <<call, retrieval_vars>>

\* ingest.py:124 and 201-202: range(1, attempts + 1) is empty
EmbedNoAttempt ==
    /\ call.fn = "embed_texts"
    /\ ret = Pending
    /\ call.texts > 0
    /\ Attempts(call.max_retries) <= 0
    /\ ret' = EmbedRaised("RuntimeError: failed before receiving a response", NoDetail)
    /\ UNCHANGED <<call, retrieval_vars>>

\* ingest.py:124-215: one iteration of the loop, the whole of `texts` in the
\* payload, and what follows the loop when the request succeeded
EmbedAttempt ==
    /\ call.fn = "embed_texts"
    /\ ret = Pending
    /\ call.texts > 0
    /\ call.attempt < Attempts(call.max_retries)
    /\ \E o \in EmbeddingOutcomes(call.attempt + 1, call.texts) :
         LET attempt == call.attempt + 1
             attempts == Attempts(call.max_retries)
             history == IF o.kind \in {"http", "urlerror", "timeout"}
                        THEN Append(call.error_history, HistoryEntry(attempt, attempts, o))
                        ELSE call.error_history
         IN  /\ call' = [call EXCEPT !.attempt = attempt,
                                     !.requests = Append(@, [i \in 1..call.texts |-> i]),
                                     !.outcomes = Append(@, o),
                                     !.error_history = history]
             /\ ret' = AttemptResult(o, attempt, attempts, history, call.texts)
    /\ UNCHANGED retrieval_vars

NextEmbed == EmbedNoTexts \/ EmbedNoAttempt \/ EmbedAttempt

SpecEmbed == InitEmbed /\ [][NextEmbed]_vars

(***************************************************************************)
(* Claims about embed_texts, checked under SpecEmbed                       *)
(***************************************************************************)
EmbedCall == call.fn = "embed_texts"
EmbedReturned == EmbedCall /\ ret.kind = "return"
EmbedRaisedError == EmbedCall /\ ret.kind = "raise"

\* the failures the specification calls transient, and the one it calls
\* non-retryable
Transient(o) ==
    \/ o.kind \in {"timeout", "urlerror"}
    \/ o.kind = "http" /\ (o.code = 429 \/ o.code \in 500..599)
NonRetryable(o) == o.kind = "http" /\ o.code \in 400..499 /\ o.code # 429
NetworkFailure(o) == o.kind \in {"http", "urlerror", "timeout"}

\* a response holding one item with a non-empty embedding per input
WellFormed(o, n) ==
    /\ o.kind = "response"
    /\ Len(o.items) = n
    /\ \A i \in 1..n : o.items[i].has /\ o.items[i].embedding # <<>>

LastOutcome == call.outcomes[Len(call.outcomes)]

\* C11: a successful return holds one non-empty vector per input, the i-th
\* being the service's vector for input i; a response with another item count
\* or with an item without embedding makes the call fail.
C11_AsStated ==
    /\ EmbedReturned =>
          /\ Len(ret.value) = call.texts
          /\ \A i \in 1..Len(ret.value) :
                /\ ret.value[i] # <<>>
                /\ ret.value[i] = ServiceVector(call.attempt, i)
    /\ (EmbedCall /\ call.outcomes # <<>> /\ LastOutcome.kind = "response"
            /\ ~WellFormed(LastOutcome, call.texts)) =>
          ret.kind = "raise"

C13_NonRetryableEndsCall ==
    EmbedCall =>
        \A i \in 1..Len(call.outcomes) :
            NonRetryable(call.outcomes[i]) =>
                /\ i = Len(call.outcomes)
                /\ ret.kind = "raise"
                /\ ret.detail.status = call.outcomes[i].code
                /\ ret.detail.body = call.outcomes[i].body

\* a 400 at the second of three allowed attempts
C13_Witness ==
    /\ EmbedRaisedError
    /\ call.max_retries = 2
    /\ Len(call.requests) = 2
    /\ Transient(call.outcomes[1])
    /\ call.outcomes[2].code = 400
    /\ ret.detail.status = 400
    /\ ret.detail.body = "bad request"

\* every allowed attempt was made and met an HTTP error, a connection error
\* or a timeout
Exhausted ==
    /\ EmbedRaisedError
    /\ call.max_retries >= 0
    /\ Len(call.outcomes) = call.max_retries + 1
    /\ \A i \in 1..Len(call.outcomes) : NetworkFailure(call.outcomes[i])

\* the history holds one entry per attempt, in attempt order
HistoryPerAttempt(history, k) ==
    /\ Len(history) = k
    /\ \A i \in 1..k :
          /\ history[i].attempt = i
          /\ history[i].kind = call.outcomes[i].kind
          /\ history[i].code = call.outcomes[i].code

\* C14 as stated: for every max_retries >= 0 the error raised on exhaustion
\* names the model, the endpoint and the number of attempts (the number of
\* requests issued) and carries one history entry per attempt, in order.
C14_AsStated ==
    Exhausted =>
        /\ ret.detail.model
        /\ ret.detail.endpoint
        /\ ret.detail.after_attempts = Len(call.requests)
        /\ HistoryPerAttempt(ret.detail.history, Len(call.requests))

\* C14 amended: the same, the number of attempts being stated only when
\* max_retries >= 1; with max_retries = 0 the message states no count.
C14_Amended ==
    Exhausted =>
        /\ ret.detail.model
        /\ ret.detail.endpoint
        /\ ret.detail.after_attempts
              = (IF call.max_retries >= 1 THEN Len(call.requests) ELSE 0)
        /\ HistoryPerAttempt(ret.detail.history, Len(call.requests))

\* two allowed attempts, both failed, the second on a timeout
C14_Witness ==
    /\ Exhausted
    /\ call.max_retries = 1
    /\ Len(call.requests) = 2
    /\ call.outcomes[2].kind = "timeout"
    /\ ret.detail.after_attempts = 2
    /\ Len(ret.detail.history) = 2

\* ceil(n / b)
CeilDiv(n, b) == (n + b - 1) \div b

\* the concatenation of the inputs of the requests
RECURSIVE Flatten(_)
Flatten(ss) == IF ss = <<>> THEN <<>> ELSE Head(ss) \o Flatten(Tail(ss))

\* C15: with batch size b > 0 and n texts, a call that meets no failure issues
\* ceil(n / b) requests of at most b consecutive inputs each, in input order,
\* and returns n vectors.
C15_AsStated ==
    (EmbedReturned /\ call.batch_size.has /\ call.batch_size.v > 0
        /\ call.error_history = <<>> /\ call.outcomes # <<>>
        /\ WellFormed(LastOutcome, call.texts)) =>
        /\ Len(call.requests) = CeilDiv(call.texts, call.batch_size.v)
        /\ \A i \in 1..Len(call.requests) : Len(call.requests[i]) <= call.batch_size.v
        /\ Flatten(call.requests) = [i \in 1..call.texts |-> i]
        /\ Len(ret.value) = call.texts

\* C16: with EMBEDDING_BATCH_SIZE <= 0 no request is ever issued and the call
\* does not return vectors.
C16_AsStated ==
    (EmbedCall /\ call.texts > 0 /\ call.batch_size.has /\ call.batch_size.v <= 0) =>
        /\ call.requests = <<>>
        /\ ret.kind # "return"

(***************************************************************************)
(* chunk_text (ingest.py:77-90, the same code at retrieve.py:160-173) and  *)
(* the entry points that call it.  A text is a sequence of characters, a   *)
(* window the string " ".join builds.  The loop is one action per          *)
(* iteration; the activation record holds words, start and chunks.         *)
(***************************************************************************)
MaxTextLen == 7       \* longest text chunked, in characters
MaxWindow == 3        \* largest chunk size and overlap configured

ADMIN_DEFAULT_CHUNK_SIZE == 200

Chars == {"a", " "}
Texts == UNION {[1..n -> Chars] : n \in 0..MaxTextLen}

\* text.split(): the maximal runs of characters other than whitespace
RECURSIVE PySplitFrom(_, _, _)
PySplitFrom(text, i, word) ==
    IF i > Len(text)
    THEN IF word = <<>> THEN <<>> ELSE <<word>>
    ELSE IF text[i] = " "
    THEN (IF word = <<>> THEN <<>> ELSE <<word>>) \o PySplitFrom(text, i + 1, <<>>)
    ELSE PySplitFrom(text, i + 1, Append(word, text[i]))
PySplit(text) == PySplitFrom(text, 1, <<>>)

\* " ".join(words)
RECURSIVE PyJoin(_)
PyJoin(words) ==
    IF words = <<>> THEN <<>>
    ELSE IF Len(words) = 1 THEN words[1]
    ELSE words[1] \o <<" ">> \o PyJoin(Tail(words))

\* s[a:b] of a Python list, a and b of either sign
PyBound(i, n) == IF i < 0 THEN Max(0, n + i) ELSE Min(i, n)
PyRange(s, a, b) == SubSeq(s, PyBound(a, Len(s)) + 1, PyBound(b, Len(s)))

\* end = min(start + max_tokens, len(words)) (ingest.py:84)
WindowEnd(start, max_tokens, n) == Min(start + max_tokens, n)

\* start = max(0, end - overlap) (ingest.py:89)
NextStartNoOverlap(end, overlap) == Max(0, end)
NextStart(end, overlap) == Max(0, end - overlap)

\* _normalize_chunk_params (admin.py:403-415): the error it raises, "" when
\* it accepts the parameters
ResolvedChunkSize(chunk_size) ==
    IF chunk_size # 0 THEN chunk_size ELSE ADMIN_DEFAULT_CHUNK_SIZE
NormalizeChunkParamsError(chunk_size, overlap) ==
    IF ResolvedChunkSize(chunk_size) <= 0 THEN "HTTPException 400: chunk_size"
    ELSE IF overlap < 0 THEN "HTTPException 400: overlap"
    ELSE IF overlap >= ResolvedChunkSize(chunk_size) THEN "HTTPException 400: overlap"
    ELSE ""

\* the callers of chunk_text: ingest_sources (ingest.py:245-275) and
\* load_intent_chunks (retrieve.py:539-552) read RAG_CHUNK_SIZE and
\* RAG_CHUNK_OVERLAP and call it; the admin endpoints (admin.py:630, 693,
\* 715) go through _normalize_chunk_params first
EntryPoints == {"ingest_sources", "load_intent_chunks", "admin"}
Validates(entry) == entry = "admin"

\* the loop may run for ever: the model follows it for this many iterations
MaxIterations == MaxTextLen + 2

InitChunk ==
    /\ RetrievalIdle
    /\ ret = Pending
    /\ \E e \in EntryPoints, t \in Texts,
          size \in (-1)..MaxWindow, o \in (-1)..MaxWindow :
          call = [fn |-> "chunk_text", entry |-> e, text |-> t, max_tokens |-> size,
                  overlap |-> o, stage |-> "entry", words |-> <<>>, start |-> 0,
                  chunks |-> <<>>]

\* the entry point up to the first test of the loop (ingest.py:78-83)
ChunkEnter ==
    /\ call.fn = "chunk_text"
    /\ call.stage = "entry"
    /\ LET error == IF Validates(call.entry)
                    THEN NormalizeChunkParamsError(call.max_tokens, call.overlap)
                    ELSE ""
           size == IF Validates(call.entry)
                   THEN ResolvedChunkSize(call.max_tokens) ELSE call.max_tokens
           words == PySplit(call.text)
       IN  IF error # ""
           THEN /\ call' = [call EXCEPT !.stage = "done"]
                /\ ret' = Raised(error)
           ELSE IF words = <<>>
           THEN /\ call' = [call EXCEPT !.stage = "done", !.max_tokens = size]
                /\ ret' = Returned(<<>>)
           ELSE /\ call' = [call EXCEPT !.stage = "loop", !.max_tokens = size,
                                        !.words = words]
                /\ UNCHANGED ret
    /\ UNCHANGED retrieval_vars

\* one iteration of the loop (ingest.py:83-90)
ChunkStep ==
    /\ call.fn = "chunk_text"
    /\ call.stage = "loop"
    /\ Len(call.chunks) < MaxIterations
    /\ LET n == Len(call.words)
           end == WindowEnd(call.start, call.max_tokens, n)
           chunk_words == PyRange(call.words, call.start, end)
           appended == Append(call.chunks, PyJoin(chunk_words))
           start == NextStart(end, call.overlap)
       IN  IF end = n \/ ~(start < n)
           THEN /\ call' = [call EXCEPT !.stage = "done", !.chunks = appended,
                                        !.start = IF end = n THEN call.start ELSE start]
                /\ ret' = Returned(appended)
           ELSE /\ call' = [call EXCEPT !.chunks = appended, !.start = start]
                /\ UNCHANGED ret
    /\ UNCHANGED retrieval_vars

NextChunk == ChunkEnter \/ ChunkStep

\* the interpreter keeps running a call that has not returned
SpecChunk == InitChunk /\ [][NextChunk]_vars /\ WF_vars(NextChunk)

(***************************************************************************)
(* Claims about chunk_text, checked under SpecChunk                        *)
(***************************************************************************)
ChunkCall == call.fn = "chunk_text"
ChunkReturned == ChunkCall /\ ret.kind = "return"
ValidChunkParams(window_size, overlap) == window_size > overlap /\ overlap >= 0

\* the words of each returned window
WindowWords(windows) == [i \in 1..Len(windows) |-> PySplit(windows[i])]

\* the last k elements of s
LastK(s, k) == SubSeq(s, Len(s) - k + 1, Len(s))

\* the windows put end to end, the `overlap` leading words of every window
\* after the first left out
RECURSIVE Unoverlap(_, _)
Unoverlap(ws, overlap) ==
    IF ws = <<>> THEN <<>>
    ELSE LET rest == [i \in 1..(Len(ws) - 1) |->
                        SubSeq(ws[i + 1], overlap + 1, Len(ws[i + 1]))]
         IN  ws[1] \o Flatten(rest)

\* what C17 says of a finished call
ChunkWindowsRight ==
    (ChunkReturned /\ ValidChunkParams(call.max_tokens, call.overlap)) =>
        LET ws == WindowWords(ret.value)
            n == Len(ws)
        IN  /\ \A i \in 1..n : 1 <= Len(ws[i]) /\ Len(ws[i]) <= call.max_tokens
            /\ \A i \in 1..(n - 1) : Len(ws[i]) = call.max_tokens
            /\ \A i \in 2..n :
                  /\ Len(ws[i]) >= call.overlap
                  /\ SubSeq(ws[i], 1, call.overlap) = LastK(ws[i - 1], call.overlap)
            /\ Unoverlap(ws, call.overlap) = PySplit(call.text)
            /\ (PySplit(call.text) = <<>>) <=> (ret.value = <<>>)

\* C17: for window_size > overlap >= 0 chunk_text terminates, and its windows
\* hold between 1 and window_size words, all but the last exactly
\* window_size, each after the first starting with the last `overlap` words
\* of its predecessor, together holding every word of the text in order; a
\* text without a word yields no window.
C17_ChunkWindows ==
    /\ []ChunkWindowsRight
    /\ [](ChunkCall /\ ValidChunkParams(call.max_tokens, call.overlap)
              /\ call.stage # "entry" => Len(call.chunks) <= Len(call.words))
    /\ (ChunkCall /\ ValidChunkParams(call.max_tokens, call.overlap)) ~> (ret # Pending)

\* two windows of a four-word text, the second shorter and starting with the
\* last word of the first
C17_Witness ==
    /\ ChunkReturned
    /\ call.max_tokens = 3
    /\ call.overlap = 1
    /\ Len(call.words) = 4
    /\ Len(ret.value) = 2
    /\ Len(PySplit(ret.value[2])) = 2
    /\ PySplit(ret.value[2])[1] = call.words[3]

\* C18: with window_size <= 0, overlap < 0 or overlap >= window_size every
\* entry point handed a text that holds a word fails with a configuration
\* error before chunking starts: no loop iteration runs with such parameters.
C18_AsStated ==
    (ChunkCall /\ call.stage # "entry" /\ PySplit(call.text) # <<>>
        /\ ~ValidChunkParams(call.max_tokens, call.overlap)) =>
        /\ ret.kind = "raise"
        /\ call.chunks = <<>>

(***************************************************************************)
(* ensure_qdrant_collection (ingest.py:49-66), called in sequence by one   *)
(* writer.  The activation record holds the state of the server (exists),  *)
(* the position of the running call (stage) and the requests issued so     *)
(* far (log, each with the status it met and whether the collection        *)
(* existed when the server handled it).                                    *)
(***************************************************************************)
MaxEnsureCalls == 3   \* sequential calls of ensure_qdrant_collection

\* exc.code != 404 re-raises (ingest.py:57)
ProbeSaysAbsentOnAnyError(status) == status # 200
ProbeSaysAbsent(status) == status = 404

\* what the server answers GET /collections/{name}: 200 or 404 by the state
\* of the collection, or a failure (an HTTP 5xx, status 0 for a URLError)
ProbeAnswers(exists) == {IF exists THEN 200 ELSE 404, 500, 0}

\* what PUT /collections/{name} can meet: applied tells whether the server
\* created the collection (a timeout may follow the creation)
CreateAnswers ==
    {[status |-> 200, applied |-> TRUE], [status |-> 500, applied |-> FALSE],
     [status |-> 0, applied |-> FALSE], [status |-> 0, applied |-> TRUE]}

QdrantRequest(method, status, existed, n) ==
    [method |-> method, status |-> status, existed |-> existed, call |-> n]

InitEnsure ==
    /\ RetrievalIdle
    /\ ret = Pending
    /\ \E e \in BOOLEAN :
          call = [fn |-> "ensure_qdrant_collection", exists |-> e, stage |-> "probe",
                  n |-> 1, log |-> <<>>]

\* ingest.py:53-58
EnsureProbe ==
    /\ call.fn = "ensure_qdrant_collection"
    /\ call.stage = "probe"
    /\ \E status \in ProbeAnswers(call.exists) :
         LET log == Append(call.log, QdrantRequest("GET", status, call.exists, call.n))
         IN  IF status = 200
             THEN /\ call' = [call EXCEPT !.log = log, !.stage = "ended"]
                  /\ ret' = Returned(<<>>)
             ELSE IF status # 0 /\ ProbeSaysAbsent(status)
             THEN /\ call' = [call EXCEPT !.log = log, !.stage = "create"]
                  /\ UNCHANGED ret
             ELSE /\ call' = [call EXCEPT !.log = log, !.stage = "ended"]
                  /\ ret' = Raised(IF status = 0 THEN "URLError" ELSE "HTTPError")
    /\ UNCHANGED retrieval_vars

\* ingest.py:60-66
EnsureCreate ==
    /\ call.fn = "ensure_qdrant_collection"
    /\ call.stage = "create"
    /\ \E answer \in CreateAnswers :
         /\ call' = [call EXCEPT
                        !.log = Append(@, QdrantRequest("PUT", answer.status,
                                                        call.exists, call.n)),
                        !.exists = @ \/ answer.applied,
                        !.stage = "ended"]
         /\ ret' = IF answer.status = 200 THEN Returned(<<>>)
                   ELSE Raised(IF answer.status = 0 THEN "URLError" ELSE "HTTPError")
    /\ UNCHANGED retrieval_vars

\* the writer calls again (ingest.py:278, once per ingested document)
EnsureAgain ==
    /\ call.fn = "ensure_qdrant_collection"
    /\ call.stage = "ended"
    /\ call.n < MaxEnsureCalls
    /\ call' = [call EXCEPT !.stage = "probe", !.n = @ + 1]
    /\ ret' = Pending
    /\ UNCHANGED retrieval_vars

NextEnsure == EnsureProbe \/ EnsureCreate \/ EnsureAgain

SpecEnsure == InitEnsure /\ [][NextEnsure]_vars

(***************************************************************************)
(* Claims about ensure_qdrant_collection, checked under SpecEnsure         *)
(***************************************************************************)
EnsureCall == call.fn = "ensure_qdrant_collection"
Creates == {i \in 1..Len(call.log) : call.log[i].method = "PUT"}

\* C19: a create request follows a probe of the same call answered 404 and
\* none other; no write is issued while the collection exists; a probe that
\* fails otherwise ends the call with that error and no create; over any
\* number of sequential calls the collection is created at most once.
C19_EnsureIdempotent ==
    EnsureCall =>
        /\ \A i \in Creates :
              /\ i > 1
              /\ call.log[i - 1].method = "GET"
              /\ call.log[i - 1].status = 404
              /\ call.log[i - 1].call = call.log[i].call
              /\ ~call.log[i].existed
        /\ \A i \in 1..Len(call.log) :
              (call.log[i].method = "GET" /\ call.log[i].status \notin {200, 404}) =>
                  /\ i < Len(call.log) => call.log[i + 1].call > call.log[i].call
                  /\ i = Len(call.log) =>
                        /\ call.stage # "create"
                        /\ call.stage = "ended" => ret.kind = "raise"
        /\ \A i \in 1..Len(call.log) :
              (call.log[i].method = "GET" /\ call.log[i].status = 200) =>
                  (i < Len(call.log) => call.log[i + 1].call > call.log[i].call)
        /\ Cardinality({i \in Creates : call.log[i].status = 200}) <= 1
        /\ \A i, j \in Creates : i < j => call.log[i].status # 200

\* a first call creates the collection, a second fails on its probe, a third
\* finds the collection and writes nothing
C19_Witness ==
    /\ EnsureCall
    /\ call.n = 3
    /\ call.stage = "ended"
    /\ Len(call.log) = 4
    /\ call.log[2].method = "PUT" /\ call.log[2].status = 200
    /\ call.log[3].status = 500
    /\ call.log[4].status = 200
    /\ ret.kind = "return"

(***************************************************************************)
(* keyword_search_bm25 (retrieve.py:359-417) on the rows of kb_chunks.     *)
(* A row holds its id, its created_at and the tokens of its content        *)
(* (_tokenize_lexical); a score is the exact fraction n / d of the float   *)
(* the source computes with k1 = 1.5 and b = 0.75.                         *)
(***************************************************************************)
Bm25Rows == 3         \* rows of kb_chunks the query selects
Bm25Times == 2        \* distinct created_at values of those rows

BM25_ROW_LIMIT == 3000

Frac(n, d) == [n |-> n, d |-> d]
FracAdd(x, y) == Frac(x.n * y.d + y.n * x.d, x.d * y.d)

\* a / b > c / d for a, c >= 0 and b, d > 0, by the integer parts and then
\* the inverted remainders
RECURSIVE FracGtParts(_, _, _, _)
FracGtParts(a, b, c, d) ==
    IF a \div b # c \div d THEN a \div b > c \div d
    ELSE IF a % b = 0 THEN FALSE
    ELSE IF c % d = 0 THEN TRUE
    ELSE FracGtParts(d, c % d, b, a % b)
FracGt(x, y) == FracGtParts(x.n, x.d, y.n, y.d)

\* term_freq.get(term, 0) (retrieve.py:392-397)
term_freq(term, tokens) == Cardinality({i \in 1..Len(tokens) : tokens[i] = term})

\* df.get(term, 0) (retrieve.py:383-386): the rows whose content holds the term
df(term, rows) == Cardinality({i \in 1..Len(rows) : term_freq(term, rows[i].tokens) > 0})

\* sum(len(tokens) for tokens in docs_tokens) (retrieve.py:382)
RECURSIVE TotalTokens(_)
TotalTokens(rows) ==
    IF rows = <<>> THEN 0 ELSE Len(Head(rows).tokens) + TotalTokens(Tail(rows))

\* (idf * (freq * (k1 + 1))) / max(1e-6, denom) (retrieve.py:399-405), with
\* idf = (N - n_qi + 0.5) / (n_qi + 0.5) and
\* denom = freq + k1 * (1 - b + b * doc_len / max(1.0, avgdl))
Bm25TermScore(term, tokens, rows) ==
    LET N == Len(rows)
        freq == term_freq(term, tokens)
        n_qi == df(term, rows)
        doc_len == Max(1, Len(tokens))
        avg == Max(N, TotalTokens(rows))       \* max(1.0, avgdl) * N
    IN  Frac((2 * N - 2 * n_qi + 1) * freq * 20 * avg,
             (2 * n_qi + 1) * (8 * freq * avg + 3 * avg + 9 * doc_len * N))

\* score of one row: the sum over the query terms found in it
RECURSIVE Bm25Score(_, _, _)
Bm25Score(query_terms, tokens, rows) ==
    IF query_terms = <<>> THEN Frac(0, 1)
    ELSE LET rest == Bm25Score(Tail(query_terms), tokens, rows)
         IN  IF term_freq(Head(query_terms), tokens) = 0 THEN rest
             ELSE FracAdd(Bm25TermScore(Head(query_terms), tokens, rows), rest)

\* `if score > 0` (retrieve.py:406)
Bm25Keep(score) == score.n > 0

\* scored, sorted by score, highest first (retrieve.py:388-408); the sort is
\* stable, rows of equal score keep the order of the query's answer
Bm25Sorted(query_terms, rows) ==
    LET all == [i \in 1..Len(rows) |->
                   [point_id |-> rows[i].id,
                    score |-> Bm25Score(query_terms, rows[i].tokens, rows)]]
        scored == SelectSeq(all, LAMBDA c : Bm25Keep(c.score))
        key == [i \in 1..Len(scored) |->
                   <<Cardinality({j \in 1..Len(scored) :
                                     FracGt(scored[i].score, scored[j].score)})>>]
    IN  SortDescStable(scored, key)

\* keyword_search_bm25 given the tokens of the query and the rows the query
\* of retrieve.py:368-379 returned
Bm25Search(query_terms, rows, top_k) ==
    IF query_terms = <<>> \/ rows = <<>> THEN <<>>
    ELSE keyword_search_bm25(Bm25Sorted(query_terms, rows), top_k)

DocTokens == {<<>>, <<"p">>, <<"q">>, <<"p", "q">>, <<"p", "p">>}
Bm25Queries == {<<>>, <<"p">>, <<"p", "q">>}

\* the contents of kb_chunks: row i has id i
Corpora ==
    UNION {[1..n -> [created_at : 1..Bm25Times, tokens : DocTokens]] : n \in 0..Bm25Rows}

\* ORDER BY c.created_at DESC LIMIT 3000: the rows in any order that has no
\* row before a more recent one; rows of equal created_at come in the order
\* the database picks
DbAnswers(corpus) ==
    LET n == Len(corpus)
        orders == {p \in [1..n -> 1..n] :
                      /\ \A i, j \in 1..n : i # j => p[i] # p[j]
                      /\ \A i, j \in 1..n :
                            i < j => corpus[p[i]].created_at >= corpus[p[j]].created_at}
    IN  {PySlice([i \in 1..n |-> [id |-> p[i], created_at |-> corpus[p[i]].created_at,
                                  tokens |-> corpus[p[i]].tokens]],
                 BM25_ROW_LIMIT) : p \in orders}

InitBm25 ==
    /\ RetrievalIdle
    /\ ret = Pending
    /\ \E c \in Corpora, q \in Bm25Queries, k \in 1..MaxTopK :
          call = [fn |-> "keyword_search_bm25", corpus |-> c, query_terms |-> q,
                  top_k |-> k, rows |-> <<>>]

\* retrieve.py:360-362: no token in the query, no query to the database
Bm25NoTerms ==
    /\ call.fn = "keyword_search_bm25"
    /\ ret = Pending
    /\ call.query_terms = <<>>
    /\ ret' = Returned(<<>>)
    /\ UNCHANGED <<call, retrieval_vars>>

\* retrieve.py:363-417
CallBm25 ==
    /\ call.fn = "keyword_search_bm25"
    /\ ret = Pending
    /\ call.query_terms # <<>>
    /\ \E rows \in DbAnswers(call.corpus) :
          /\ call' = [call EXCEPT !.rows = rows]
          /\ ret' = Returned(Bm25Search(call.query_terms, rows, call.top_k))
    /\ UNCHANGED retrieval_vars

NextBm25 == Bm25NoTerms \/ CallBm25

SpecBm25 == InitBm25 /\ [][NextBm25]_vars

(***************************************************************************)
(* Claims about keyword_search_bm25, checked under SpecBm25                *)
(***************************************************************************)
Bm25Returned == call.fn = "keyword_search_bm25" /\ ret.kind = "return"

\* what the specification says of the order of an answer: scores never
\* increase, none is zero, and of two chunks of equal score the one created
\* no earlier comes first
Bm25Ordered(out, corpus, top_k) ==
    /\ Len(out) <= top_k
    /\ \A i \in 1..Len(out) : out[i].score.n > 0
    /\ \A i, j \in 1..Len(out) :
          i < j =>
             /\ ~FracGt(out[j].score, out[i].score)
             /\ ~FracGt(out[i].score, out[j].score) =>
                   corpus[out[i].point_id].created_at >= corpus[out[j].point_id].created_at

\* C20: at most top_k chunks, in non-increasing score order, none of score
\* zero, equal scores ordered by recency, and the answer is the same for
\* every answer the database may give to the query on the same rows.
C20_AsStated ==
    Bm25Returned =>
        /\ Bm25Ordered(ret.value, call.corpus, call.top_k)
        /\ \A rows \in DbAnswers(call.corpus) :
              Bm25Search(call.query_terms, rows, call.top_k) = ret.value

(***************************************************************************)
(* rewrite_query (retrieve.py:346-356).  A string is a sequence of atoms:  *)
(* the blank " " and words that hold no blank; two adjacent words read as  *)
(* one longer word.  The words are chosen so that joining two of them      *)
(* spells no trigger that neither of them holds.                           *)
(***************************************************************************)
MaxQueryLen == 3   \* atoms of a query

QueryWords == {"x", "coute", "Coûte", "communiqué", "olive", "LIVE", "vidéo", "prix"}
QueryAtoms == {" "} \cup QueryWords

Queries == UNION {[1..n -> QueryAtoms] : n \in 0..MaxQueryLen}

\* str.lower(), atom by atom
LowerAtom(a) ==
    CASE a = "Coûte" -> "coûte"
      [] a = "LIVE" -> "live"
      [] a = "CP" -> "cp"
      [] a = "Facebook" -> "facebook"
      [] a = "YouTube" -> "youtube"
      [] OTHER -> a

Lower(s) == [i \in 1..Len(s) |-> LowerAtom(s[i])]

\* the words of the universe in which a trigger occurs as a substring
WordsHolding(trigger) ==
    CASE trigger = "coûte" -> {"coûte"}
      [] trigger = "coute" -> {"coute"}
      [] trigger = "communiqué" -> {"communiqué"}
      [] trigger = "communique" -> {}
      [] trigger = "live" -> {"live", "olive"}
      [] OTHER -> {}

\* trigger in lowered
Contains(lowered, trigger) ==
    \E i \in 1..Len(lowered) : lowered[i] \in WordsHolding(trigger)

\* str.strip()
RECURSIVE LStrip(_)
LStrip(s) == IF s # <<>> /\ Head(s) = " " THEN LStrip(Tail(s)) ELSE s

RECURSIVE RStrip(_)
RStrip(s) ==
    IF s # <<>> /\ s[Len(s)] = " " THEN RStrip(SubSeq(s, 1, Len(s) - 1)) ELSE s

Strip(s) == RStrip(LStrip(s))

\* list(dict.fromkeys(items)): the first occurrence of every item, in order
RECURSIVE DictFromKeys(_)
DictFromKeys(items) ==
    IF items = <<>> THEN <<>>
    ELSE LET rest == DictFromKeys(SubSeq(items, 1, Len(items) - 1))
             last == items[Len(items)]
         IN  IF \E i \in 1..Len(rest) : rest[i] = last THEN rest
             ELSE Append(rest, last)

\* " ".join(items)
RECURSIVE JoinBlank(_)
JoinBlank(items) ==
    IF items = <<>> THEN <<>>
    ELSE IF Len(items) = 1 THEN items[1]
    ELSE items[1] \o <<" ">> \o JoinBlank(Tail(items))

PriceExpansion == << <<"prix">>, <<"tarif">> >>
PressExpansion ==
    << <<"communiqué", " ", "de", " ", "presse">>, <<"CP">>,
       <<"diffusion", " ", "presse">> >>
LiveExpansion ==
    << <<"vidéo", " ", "live">>, <<"couverture", " ", "live">>,
       <<"Facebook">>, <<"YouTube">> >>

\* retrieve.py:347-354
expansion_tokens(query) ==
    LET lowered == Lower(query)
    IN  (IF Contains(lowered, "coûte") \/ Contains(lowered, "coute")
         THEN PriceExpansion ELSE <<>>)
        \o (IF Contains(lowered, "communiqué") \/ Contains(lowered, "communique")
            THEN PressExpansion ELSE <<>>)
        \o (IF Contains(lowered, "live") THEN LiveExpansion ELSE <<>>)

\* retrieve.py:355-356
rewrite_query_expansion_only(query) ==
    LET rewritten == Strip(JoinBlank(DictFromKeys(expansion_tokens(query))))
    IN  IF rewritten # <<>> THEN rewritten ELSE query
rewrite_query(query) ==
    LET rewritten ==
            Strip(JoinBlank(DictFromKeys(<<Strip(query)>> \o expansion_tokens(query))))
    IN  IF rewritten # <<>> THEN rewritten ELSE query

InitRewrite ==
    /\ RetrievalIdle
    /\ ret = Pending
    /\ \E q \in Queries :
          call = [fn |-> "rewrite_query", query |-> q, stage |-> "query", first |-> <<>>]

\* rewrite_query(query), retrieve.py:595
RewriteQuery ==
    /\ call.fn = "rewrite_query"
    /\ call.stage = "query"
    /\ LET rewritten == rewrite_query(call.query)
       IN  /\ call' = [call EXCEPT !.stage = "rewritten", !.first = rewritten]
           /\ ret' = Returned(rewritten)
    /\ UNCHANGED retrieval_vars

\* the rewriter applied to its own output
RewriteAgain ==
    /\ call.fn = "rewrite_query"
    /\ call.stage = "rewritten"
    /\ call' = [call EXCEPT !.stage = "again"]
    /\ ret' = Returned(rewrite_query(call.first))
    /\ UNCHANGED retrieval_vars

NextRewrite == RewriteQuery \/ RewriteAgain

SpecRewrite == InitRewrite /\ [][NextRewrite]_vars

(***************************************************************************)
(* Claims about rewrite_query, checked under SpecRewrite                   *)
(***************************************************************************)
RewriteCall == call.fn = "rewrite_query"
Rewritten == RewriteCall /\ call.stage = "rewritten"

HasTrigger(query, triggers) ==
    \E i \in 1..Len(query) : \E t \in triggers : LowerAtom(query[i]) \in WordsHolding(t)

\* the expansion tokens the triggers present in the query allow
AllowedExpansion(query) ==
    (IF HasTrigger(query, {"coûte", "coute"}) THEN Range(PriceExpansion) ELSE {})
    \cup (IF HasTrigger(query, {"communiqué", "communique"})
          THEN Range(PressExpansion) ELSE {})
    \cup (IF HasTrigger(query, {"live"}) THEN Range(LiveExpansion) ELSE {})

StartsWith(s, prefix) ==
    Len(prefix) <= Len(s) /\ SubSeq(s, 1, Len(prefix)) = prefix

\* s is made of allowed tokens, each behind one blank
RECURSIVE IsAppended(_, _)
IsAppended(s, allowed) ==
    \/ s = <<>>
    \/ \E token \in allowed :
          /\ StartsWith(s, <<" ">> \o token)
          /\ IsAppended(SubSeq(s, Len(token) + 2, Len(s)), allowed)

\* expansion tokens the query's triggers allow account for all that follows
\* the trimmed query in the result
OnlyAllowedAdditions(query, rewritten) ==
    IsAppended(SubSeq(rewritten, Len(Strip(query)) + 1, Len(rewritten)),
               AllowedExpansion(query))

HoldsToken(s, token) ==
    \E i \in 1..Len(s) : i + Len(token) - 1 <= Len(s)
                         /\ SubSeq(s, i, i + Len(token) - 1) = token

\* C21: the result of rewrite_query starts with the trimmed query; what
\* follows is made only of expansion tokens of the triggers the query holds;
\* a query holding 'coûte'/'coute' gains 'prix' and 'tarif', one holding
\* 'communiqué'/'communique' gains 'diffusion presse'; a query holding no
\* trigger comes back unchanged apart from trimming.
C21_NeverRemoves ==
    Rewritten =>
        LET q == call.query
            r == ret.value
        IN  /\ ret.kind = "return"
            /\ StartsWith(r, Strip(q))
            /\ Strip(q) # <<>> => OnlyAllowedAdditions(q, r)
            /\ HasTrigger(q, {"coûte", "coute"}) =>
                  HoldsToken(r, <<" ", "prix">>) /\ HoldsToken(r, <<" ", "tarif">>)
            /\ HasTrigger(q, {"communiqué", "communique"}) =>
                  HoldsToken(r, <<" ", "diffusion", " ", "presse">>)
            /\ AllowedExpansion(q) = {} => Strip(r) = Strip(q)

\* a query with both the price and the press trigger and blanks to trim
C21_Witness ==
    /\ Rewritten
    /\ call.query = <<" ", "Coûte", "communiqué">>
    /\ ret.value = <<"Coûte", "communiqué", " ", "prix", " ", "tarif", " ",
                     "communiqué", " ", "de", " ", "presse", " ", "CP", " ",
                     "diffusion", " ", "presse">>

\* C22: rewrite_query(rewrite_query(q)) = rewrite_query(q) for every query q.
C22_AsStated ==
    RewriteCall /\ call.stage = "again" => ret.value = call.first

(***************************************************************************)
(* Context compaction: the text of a context entry is                      *)
(* _compact_chunk_content (retrieve.py:240-261, applied by                 *)
(* build_rag_context, retrieve.py:224) of _focus_chunk_content_for_query   *)
(* (retrieve.py:264-307) of the chunk content.  The two functions are      *)
(* modelled on their own, apart from the assignment of retrieve.py:729.    *)
(* A chunk content is the list of its embedded "text" fields (facts) and   *)
(* the length of its raw text; a fact is its length once decoded and       *)
(* normalised (0 for a blank one) and what the scoring of the query finds  *)
(* in it.  A displayed text is a sequence of segments, each a fact, a      *)
(* separator " | " or raw text, with the number of characters kept of it.  *)
(***************************************************************************)
MaxFacts == 3      \* facts of a content, each chosen freely
MaxSameFacts == 13 \* facts of a content made of one repeated fact

max_chars == 700
max_text_items == 12
max_lines == 4

FactChars == {0, 1, 350}
RawChars == {5, 800}

Fact(chars, focus, overlap, price) ==
    [chars |-> chars, startswith_focus |-> focus, overlap |-> overlap,
     has_price |-> price]

Facts ==
    {Fact(c, k[1], k[2], k[3]) :
        c \in FactChars,
        k \in {<<0, 0, 0>>, <<0, 1, 0>>, <<0, 0, 1>>, <<1, 1, 1>>}}

Contents ==
    {[facts |-> f, raw |-> r] :
        f \in UNION {[1..n -> Facts] : n \in 1..MaxFacts}
              \cup {[i \in 1..n |-> x] : n \in 1..MaxSameFacts, x \in Facts},
        r \in RawChars}
    \cup {[facts |-> <<>>, raw |-> r] : r \in RawChars \cup {0}}

FactSegment(chars) == [kind |-> "fact", chars |-> chars, whole |-> chars]
Separator == [kind |-> "sep", chars |-> 3, whole |-> 3]
RawSegment(chars) == [kind |-> "raw", chars |-> chars, whole |-> chars]

RECURSIVE TextChars(_)
TextChars(text) ==
    IF text = <<>> THEN 0 ELSE Head(text).chars + TextChars(Tail(text))

\* " | ".join(items)
RECURSIVE JoinFacts(_)
JoinFacts(items) ==
    IF items = <<>> THEN <<>>
    ELSE IF Len(items) = 1 THEN <<FactSegment(items[1].chars)>>
    ELSE <<FactSegment(items[1].chars), Separator>> \o JoinFacts(Tail(items))

\* text[:n]
RECURSIVE Truncate(_, _)
Truncate(text, n) ==
    IF text = <<>> \/ n <= 0 THEN <<>>
    ELSE IF Head(text).chars <= n
    THEN <<Head(text)>> \o Truncate(Tail(text), n - Head(text).chars)
    ELSE <<[Head(text) EXCEPT !.chars = n]>>

\* text.strip() of a text that starts with no blank: a separator cut after
\* its first blank goes, one kept whole loses its last blank
StripText(text) ==
    IF text = <<>> THEN <<>>
    ELSE LET last == text[Len(text)]
             front == SubSeq(text, 1, Len(text) - 1)
         IN  IF last.kind # "sep" THEN text
             ELSE IF last.chars = 1 THEN front
             ELSE Append(front, [last EXCEPT !.chars = 2])

\* the decoded, normalised, non-empty "text" fields (retrieve.py:246-256)
DecodedItems(content) == SelectSeq(content.facts, LAMBDA f : f.chars > 0)

\* a text holding no "text" field: whitespace collapsed, cut and stripped
\* (retrieve.py:260-261)
CompactPlain(text) == StripText(Truncate(text, max_chars))

\* _compact_chunk_content of a chunk content as stored
CompactContent(content) ==
    LET decoded_items == DecodedItems(content)
    IN  IF content.raw = 0 THEN <<>>
        ELSE IF decoded_items # <<>>
        THEN StripText(Truncate(JoinFacts(PySlice(decoded_items, max_text_items)),
                                max_chars))
        ELSE CompactPlain(<<RawSegment(content.raw)>>)

\* retrieve.py:291
FactScore(f) == f.startswith_focus * 10 + f.overlap * 3 + f.has_price

\* retrieve.py:264-307
FocusKeep(scored) == PySlice(scored, max_lines)
focus_chunk_content_for_query(content) ==
    LET candidates == DecodedItems(content)
        scored == SelectSeq(candidates, LAMBDA f : FactScore(f) > 0)
        sorted == SortDescStable(scored, [i \in 1..Len(scored) |-> <<FactScore(scored[i])>>])
    IN  IF content.raw = 0 THEN <<>>
        ELSE IF candidates = <<>> \/ scored = <<>> THEN CompactContent(content)
        ELSE JoinFacts(FocusKeep(sorted))

\* _compact_chunk_content of an already focused text (retrieve.py:224)
compact_chunk_content(text) == CompactPlain(text)

InitCompact ==
    /\ RetrievalIdle
    /\ ret = Pending
    /\ \E c \in Contents :
          call = [fn |-> "compact", content |-> c, stage |-> "selected", text |-> <<>>]

\* _focus_chunk_content_for_query(rewritten_query, chunk.content)
FocusChunk ==
    /\ call.fn = "compact"
    /\ call.stage = "selected"
    /\ call' = [call EXCEPT !.stage = "focused",
                            !.text = focus_chunk_content_for_query(call.content)]
    /\ UNCHANGED <<ret>>
    /\ UNCHANGED retrieval_vars

\* build_rag_context, retrieve.py:223-236: the text of the context entry; a
\* chunk whose compacted content is empty gives no entry
BuildEntry ==
    /\ call.fn = "compact"
    /\ call.stage = "focused"
    /\ call' = [call EXCEPT !.stage = "built"]
    /\ ret' = Returned(compact_chunk_content(call.text))
    /\ UNCHANGED retrieval_vars

NextCompact == FocusChunk \/ BuildEntry

SpecCompact == InitCompact /\ [][NextCompact]_vars

(***************************************************************************)
(* Claims about compaction, checked under SpecCompact                      *)
(***************************************************************************)
EntryBuilt == call.fn = "compact" /\ call.stage = "built"

\* the facts the entry shows in full
RetainedFacts(text) ==
    Cardinality({i \in 1..Len(text) :
                    text[i].kind = "fact" /\ text[i].chars = text[i].whole})

\* C23: the text of a context entry is at most 700 characters long, and of
\* the facts of a content at most 4 are retained, whether or not any fact
\* scores against the query.
C23_AsStated ==
    EntryBuilt =>
        /\ TextChars(ret.value) <= max_chars
        /\ RetainedFacts(ret.value) <= max_lines

(***************************************************************************)
(* The callers of retrieve_rag_context: chat_message (main.py:335-433),    *)
(* chat_stream (main.py:651-790) and the wizard's _answer_rag_question     *)
(* (state_machine.py:760-787), from the retrieval on.  The request has     *)
(* passed the early returns, and its session row exists (the user message  *)
(* was recorded against it at entry, main.py:195, and nothing deletes a    *)
(* session).  A context is the list of its non-empty parts.                *)
(***************************************************************************)
Callers == {"chat_message", "chat_stream", "_answer_rag_question"}

\* payload.context.get("rag_context", ""), "" when the client sent none
SuppliedContexts(fn) ==
    IF fn = "_answer_rag_question" THEN {""} ELSE {"", "supplied"}

\* what retrieve_rag_context can raise
RetrievalErrors ==
    {"RuntimeError", "HTTPError", "URLError", "TimeoutError", "OperationalError",
     "FrozenInstanceError", "AttributeError", "IndexError"}

RetrievalOutcomes ==
    {[kind |-> "context", text |-> t, exc |-> ""] : t \in {"", "retrieved"}}
    \cup {[kind |-> "raise", text |-> "", exc |-> e] : e \in RetrievalErrors}

\* "\n\n".join([context for context in (rag_context, retrieved_context) if context])
JoinContexts(supplied, retrieved) ==
    SelectSeq(<<supplied, retrieved>>, LAMBDA part : part # "")

\* except Exception (main.py:350, 666, state_machine.py:763)
CaughtOnlyRuntimeError(exc) == exc = "RuntimeError"
Caught(exc) == exc \in RetrievalErrors

\* call_llm (llm/client.py:19-86): the answer, LLMClientError for an HTTP
\* error, a connection error or an unreadable answer, and the timeout of
\* response.read(), which it does not wrap
LlmOutcomes == {"answer", "LLMClientError", "TimeoutError"}

NoMessages == [sent |-> FALSE, rag_context |-> <<>>, rag_empty_factual |-> FALSE]
Messages(rag_context, flag) ==
    [sent |-> TRUE, rag_context |-> rag_context, rag_empty_factual |-> flag]

InitCaller ==
    /\ RetrievalIdle
    /\ ret = Pending
    /\ \E fn \in Callers, factual \in BOOLEAN :
         \E supplied \in SuppliedContexts(fn) :
            call = [fn |-> fn, stage |-> "retrieve", supplied |-> supplied,
                    factual |-> factual, retrieval |-> Pending,
                    rag_context |-> JoinContexts(supplied, ""),
                    messages |-> NoMessages, llm |-> "none"]

\* main.py:343-377, 659-695; state_machine.py:761-778
CallerRetrieve ==
    /\ call.fn \in Callers
    /\ call.stage = "retrieve"
    /\ \E out \in RetrievalOutcomes, launch_year \in BOOLEAN :
         LET context ==
                 IF out.kind = "context" THEN JoinContexts(call.supplied, out.text)
                 ELSE call.rag_context
             flag == call.factual /\ context = <<>>
         IN  IF out.kind = "raise" /\ ~Caught(out.exc)
             THEN /\ call' = [call EXCEPT !.stage = "ended", !.retrieval = out]
                  /\ ret' = Raised(out.exc)
             ELSE IF call.fn = "_answer_rag_question" /\ launch_year /\ context # <<>>
             THEN \* _build_factual_rag_answer finds the launch year in the context
                  /\ call' = [call EXCEPT !.stage = "ended", !.retrieval = out,
                                          !.rag_context = context]
                  /\ ret' = Returned("factual_answer")
             ELSE /\ ~launch_year
                  /\ call' = [call EXCEPT !.stage = "llm", !.retrieval = out,
                                          !.rag_context = context,
                                          !.messages = Messages(context, flag)]
                  /\ UNCHANGED ret
    /\ UNCHANGED retrieval_vars

\* main.py:381-440, 717-790; state_machine.py:779-787
CallerLlm ==
    /\ call.fn \in Callers
    /\ call.stage = "llm"
    /\ \E out \in LlmOutcomes :
         /\ call' = [call EXCEPT !.stage = "ended", !.llm = out]
         /\ ret' = CASE out = "answer" -> Returned("assistant_message")
                     [] out = "LLMClientError" -> Returned("fallback_message")
                     [] out = "TimeoutError" ->
                          IF call.fn = "chat_stream" THEN Returned("fallback_message")
                          ELSE Raised("TimeoutError")
    /\ UNCHANGED retrieval_vars

NextCaller == CallerRetrieve \/ CallerLlm

SpecCaller == InitCaller /\ [][NextCaller]_vars

(***************************************************************************)
(* Claims about the callers, checked under SpecCaller                      *)
(***************************************************************************)
RetrievalFailed == call.fn \in Callers /\ call.retrieval.kind = "raise"

HTTP_TIMEOUT_SECONDS == 20   \* urlopen(request, timeout=20)
NoTimeout == 0               \* psycopg.connect(database_url): no timeout given

HttpOutcomes == {"ok", "http_400", "http_429", "http_500", "url_error", "timeout"}
DbOutcomes == {"ok", "operational_error"}

\* what urlopen raises inside request_json (retrieve.py:116)
RequestJsonError(outcome) ==
    CASE outcome \in {"http_400", "http_429", "http_500"} -> "HTTPError"
      [] outcome = "url_error" -> "URLError"
      [] outcome = "timeout" -> "TimeoutError"

\* except (HTTPError, URLError): raise RuntimeError (retrieve.py:132-133)
EmbedQueryError(outcome) ==
    IF RequestJsonError(outcome) \in {"HTTPError", "URLError"} THEN "RuntimeError"
    ELSE RequestJsonError(outcome)

ExternalRequest(service, timeout, outcome) ==
    [service |-> service, timeout |-> timeout, outcome |-> outcome]

InitExternal ==
    /\ RetrievalIdle
    /\ ret = Pending
    /\ \E k \in 1..MaxTopK, i \in Intents, t \in ScoreThresholds, key \in BOOLEAN :
          call = [fn |-> "retrieve_rag_context", stage |-> "embed_query", top_k |-> k,
                  intent |-> i, threshold |-> t, cohere_api_key |-> key, log |-> <<>>]

\* retrieve.py:596, 123-137
ExternalEmbed ==
    /\ call.fn = "retrieve_rag_context"
    /\ call.stage = "embed_query"
    /\ \E outcome \in HttpOutcomes :
         LET log == Append(call.log,
                           ExternalRequest("embedding", HTTP_TIMEOUT_SECONDS, outcome))
         IN  IF outcome = "ok"
             THEN /\ call' = [call EXCEPT !.log = log, !.stage = "search_qdrant"]
                  /\ UNCHANGED ret
             ELSE /\ call' = [call EXCEPT !.log = log, !.stage = "ended"]
                  /\ ret' = Raised(EmbedQueryError(outcome))
    /\ UNCHANGED retrieval_vars

\* retrieve.py:623, 176-218
ExternalSearch ==
    /\ call.fn = "retrieve_rag_context"
    /\ call.stage = "search_qdrant"
    /\ \E outcome \in HttpOutcomes :
         LET log == Append(call.log,
                           ExternalRequest("qdrant", HTTP_TIMEOUT_SECONDS, outcome))
         IN  IF outcome = "ok"
             THEN /\ call' = [call EXCEPT !.log = log, !.stage = "keyword_search_bm25"]
                  /\ UNCHANGED ret
             ELSE /\ call' = [call EXCEPT !.log = log, !.stage = "ended"]
                  /\ ret' = Raised(RequestJsonError(outcome))
    /\ UNCHANGED retrieval_vars

\* retrieve.py:624, 359-411, 155-157
ExternalLexical ==
    /\ call.fn = "retrieve_rag_context"
    /\ call.stage = "keyword_search_bm25"
    /\ \E outcome \in DbOutcomes :
         LET log == Append(call.log, ExternalRequest("database", NoTimeout, outcome))
         IN  IF outcome = "ok"
             THEN /\ call' = [call EXCEPT !.log = log, !.stage = "rerank"]
                  /\ UNCHANGED ret
             ELSE /\ call' = [call EXCEPT !.log = log, !.stage = "ended"]
                  /\ ret' = Raised("OperationalError")
    /\ UNCHANGED retrieval_vars

\* retrieve.py:720, 440-469: without chunks or without a key no request is
\* made; a failed request falls back to lexical reranking
ExternalRerank ==
    /\ call.fn = "retrieve_rag_context"
    /\ call.stage = "rerank"
    /\ \E found \in BOOLEAN :
         IF found /\ call.cohere_api_key
         THEN \E outcome \in HttpOutcomes :
                 call' = [call EXCEPT
                             !.log = Append(@, ExternalRequest("rerank",
                                                    HTTP_TIMEOUT_SECONDS, outcome)),
                             !.stage = "ended"]
         ELSE call' = [call EXCEPT !.stage = "ended"]
    /\ ret' = Returned(<<>>)
    /\ UNCHANGED retrieval_vars

NextExternal == ExternalEmbed \/ ExternalSearch \/ ExternalLexical \/ ExternalRerank

SpecExternal == InitExternal /\ [][NextExternal]_vars

(***************************************************************************)
(* Claims about the external calls, checked under SpecExternal             *)
(***************************************************************************)
ExternalCall == call.fn = "retrieve_rag_context"

TransientOutcome(outcome) == outcome \in {"timeout", "http_500", "http_429"}

AttemptsOn(service) ==
    Cardinality({i \in 1..Len(call.log) : call.log[i].service = service})

\* C25: every external request of a retrieval carries a timeout, and the
\* request does not fail on a timeout, an HTTP 5xx or an HTTP 429 of the
\* embedding or vector-store service before that call was attempted again.
C25_AsStated ==
    ExternalCall =>
        /\ \A i \in 1..Len(call.log) : call.log[i].timeout # NoTimeout
        /\ \A i \in 1..Len(call.log) :
              /\ call.log[i].service \in {"embedding", "qdrant"}
              /\ TransientOutcome(call.log[i].outcome)
              /\ ret.kind = "raise"
              => AttemptsOn(call.log[i].service) > 1

(***************************************************************************)
(* The wizard: handle_step (orchestrator/state_machine.py:901-1110) driven *)
(* by chat_message (main.py:238-265), which stores the suggested next step *)
(* in the session while the client merges the slot updates into its slots. *)
(* Two buttons of every group are modelled, and a handful of typed texts.  *)
(* A dictionary of slots is a set of <<key, value>> pairs.  For the two    *)
(* regular expressions a text is read as its sequence of character kinds:  *)
(* "w" a character other than the ones named, "s", "@", ".", "\\" the      *)
(* backslash, "D", " " and "d" a digit.                                    *)
(***************************************************************************)
NoButton == ""

WizardSlotSteps ==
    {"BUDGET_CLIENT_TYPE", "BUDGET_OBJECTIVE", "BUDGET_RANGE",
     "FORM_STANDARD_FIRST_NAME", "FORM_STANDARD_LAST_NAME", "FORM_STANDARD_COMPANY",
     "FORM_STANDARD_EMAIL", "FORM_STANDARD_PHONE", "FORM_STANDARD_JOB_TITLE",
     "FORM_STANDARD_SECTOR", "FORM_STANDARD_MESSAGE", "FORM_IMMONEUF_PROJECT_CITIES",
     "FORM_IMMONEUF_PROJECT_TYPES", "FORM_IMMONEUF_PROJECTS_COUNT",
     "FORM_IMMONEUF_MARKETING_PERIOD", "FORM_PREMIUM_ESTIMATED_USERS",
     "FORM_PARTNERSHIP_PRIORITY"}

\* state_machine.py:460-478
WIZARD_SLOTS(step) ==
    CASE step = "BUDGET_CLIENT_TYPE" -> "client_type"
      [] step = "BUDGET_OBJECTIVE" -> "objective"
      [] step = "BUDGET_RANGE" -> "budget_range"
      [] step = "FORM_STANDARD_FIRST_NAME" -> "first_name"
      [] step = "FORM_STANDARD_LAST_NAME" -> "last_name"
      [] step = "FORM_STANDARD_COMPANY" -> "company"
      [] step = "FORM_STANDARD_EMAIL" -> "email"
      [] step = "FORM_STANDARD_PHONE" -> "phone"
      [] step = "FORM_STANDARD_JOB_TITLE" -> "job_title"
      [] step = "FORM_STANDARD_SECTOR" -> "sector"
      [] step = "FORM_STANDARD_MESSAGE" -> "message"
      [] step = "FORM_IMMONEUF_PROJECT_CITIES" -> "project_cities"
      [] step = "FORM_IMMONEUF_PROJECT_TYPES" -> "project_types"
      [] step = "FORM_IMMONEUF_PROJECTS_COUNT" -> "projects_count"
      [] step = "FORM_IMMONEUF_MARKETING_PERIOD" -> "marketing_period"
      [] step = "FORM_PREMIUM_ESTIMATED_USERS" -> "estimated_users"
      [] step = "FORM_PARTNERSHIP_PRIORITY" -> "partnership_priority"

\* WIZARD_NEXT_STEP.get(step, step), state_machine.py:480-498
WIZARD_NEXT_STEP(step) ==
    CASE step = "BUDGET_CLIENT_TYPE" -> "BUDGET_OBJECTIVE"
      [] step = "BUDGET_OBJECTIVE" -> "BUDGET_RANGE"
      [] step = "BUDGET_RANGE" -> "FORM_STANDARD_FIRST_NAME"
      [] step = "FORM_IMMONEUF_PROJECT_CITIES" -> "FORM_IMMONEUF_PROJECT_TYPES"
      [] step = "FORM_IMMONEUF_PROJECT_TYPES" -> "FORM_IMMONEUF_PROJECTS_COUNT"
      [] step = "FORM_IMMONEUF_PROJECTS_COUNT" -> "FORM_IMMONEUF_MARKETING_PERIOD"
      [] step = "FORM_IMMONEUF_MARKETING_PERIOD" -> "FORM_STANDARD_FIRST_NAME"
      [] step = "FORM_PREMIUM_ESTIMATED_USERS" -> "FORM_STANDARD_FIRST_NAME"
      [] step = "FORM_PARTNERSHIP_PRIORITY" -> "FORM_STANDARD_FIRST_NAME"
      [] step = "FORM_STANDARD_FIRST_NAME" -> "FORM_STANDARD_LAST_NAME"
      [] step = "FORM_STANDARD_LAST_NAME" -> "FORM_STANDARD_COMPANY"
      [] step = "FORM_STANDARD_COMPANY" -> "FORM_STANDARD_EMAIL"
      [] step = "FORM_STANDARD_EMAIL" -> "FORM_STANDARD_PHONE"
      [] step = "FORM_STANDARD_PHONE" -> "FORM_STANDARD_JOB_TITLE"
      [] step = "FORM_STANDARD_JOB_TITLE" -> "FORM_STANDARD_SECTOR"
      [] step = "FORM_STANDARD_SECTOR" -> "FORM_STANDARD_MESSAGE"
      [] step = "FORM_STANDARD_MESSAGE" -> "FORM_STANDARD_DONE"
      [] OTHER -> step

\* the buttons of BUTTONS_BY_STEP (state_machine.py:381-395) at a wizard step
StepButtons(step) ==
    CASE step = "BUDGET_CLIENT_TYPE" -> <<"CT_AGENCY", "CT_OTHER">>
      [] step = "BUDGET_OBJECTIVE" -> <<"OBJ_AWARENESS", "OBJ_LEADS">>
      [] step = "BUDGET_RANGE" -> <<"B_1000_3000", "B_UNKNOWN">>
      [] step = "FORM_STANDARD_SECTOR" -> <<"SECTOR_BANK", "SECTOR_OTHER">>
      [] OTHER -> <<>>

\* state_machine.py:568-573
get_buttons_for_step(step) == Append(StepButtons(step), "NAV_MAIN_MENU")

\* state_machine.py:500-526; the label of each of these buttons is its value
WizardButtonIds ==
    {"CT_AGENCY", "CT_OTHER", "OBJ_AWARENESS", "OBJ_LEADS", "B_1000_3000",
     "B_UNKNOWN", "SECTOR_BANK", "SECTOR_OTHER"}

WIZARD_BUTTON_VALUES(id) ==
    CASE id = "CT_AGENCY" -> "Agence média / communication"
      [] id = "CT_OTHER" -> "Autre"
      [] id = "OBJ_AWARENESS" -> "Notoriété / image"
      [] id = "OBJ_LEADS" -> "Générer des leads"
      [] id = "B_1000_3000" -> "1000-3000"
      [] id = "B_UNKNOWN" -> "Je ne sais pas encore"
      [] id = "SECTOR_BANK" -> "Banque"
      [] id = "SECTOR_OTHER" -> "Autre"

ButtonLabel(id) ==
    IF id = "NAV_MAIN_MENU" THEN "Menu principal" ELSE WIZARD_BUTTON_VALUES(id)

\* normalize_text (state_machine.py:635-640): trimmed, lower case, accents off
normalize_text(text) ==
    CASE text = "Agence média / communication" -> "agence media / communication"
      [] text = "Autre" -> "autre"
      [] text = "Notoriété / image" -> "notoriete / image"
      [] text = "notoriété / image " -> "notoriete / image"
      [] text = "Générer des leads" -> "generer des leads"
      [] text = "Je ne sais pas encore" -> "je ne sais pas encore"
      [] text = "Banque" -> "banque"
      [] text = "Menu principal" -> "menu principal"
      [] text = "Amina" -> "amina"
      [] text = "Ben Ali" -> "ben ali"
      [] text = "TN Media" -> "tn media"
      [] text = "Directrice marketing" -> "directrice marketing"
      [] text = " Passer" -> "passer"
      [] text = "Nous souhaitons une campagne rapide." ->
             "nous souhaitons une campagne rapide."
      [] text = "Quels sont vos produits ?" -> "quels sont vos produits ?"
      [] text = "Offre vidéo" -> "offre video"
      [] text = "Tunis et Sousse" -> "tunis et sousse"
      [] text = "  " -> ""
      [] OTHER -> text

\* user_message.strip()
StripMessage(text) ==
    CASE text = "notoriété / image " -> "notoriété / image"
      [] text = " Passer" -> "Passer"
      [] text = "  " -> ""
      [] OTHER -> text

\* looks_like_question (state_machine.py:643-653)
QuestionPrefixed(normalized) == normalized \in {"quels sont vos produits ?"}
HoldsQuestionKeyword(normalized) ==
    normalized \in {"quels sont vos produits ?", "offre video"}
looks_like_question(user_message) ==
    /\ normalize_text(user_message) # ""
    /\ \/ user_message \in {"Quels sont vos produits ?"}   \* "?" in user_message
       \/ QuestionPrefixed(normalize_text(user_message))
       \/ HoldsQuestionKeyword(normalize_text(user_message))

\* the first button of the list whose normalised label is the text, "" if none
FirstLabelled(buttons, normalized) ==
    IF \E i \in 1..Len(buttons) : normalize_text(ButtonLabel(buttons[i])) = normalized
    THEN buttons[CHOOSE i \in 1..Len(buttons) :
                    /\ normalize_text(ButtonLabel(buttons[i])) = normalized
                    /\ \A j \in 1..(i - 1) :
                          normalize_text(ButtonLabel(buttons[j])) # normalized]
    ELSE NoButton

\* state_machine.py:663-670
match_button_id(step, user_message) ==
    IF normalize_text(user_message) = "" THEN NoButton
    ELSE FirstLabelled(get_buttons_for_step(step), normalize_text(user_message))

\* _match_text_value (state_machine.py:673-694), "" for None
match_text_value(step, user_message) ==
    LET id == FirstLabelled(StepButtons(step), normalize_text(user_message))
    IN  IF step \notin WizardSlotSteps \/ normalize_text(user_message) = ""
           \/ id = NoButton
        THEN ""
        ELSE WIZARD_BUTTON_VALUES(id)

Run(kind, n) == [i \in 1..n |-> kind]

\* the character kinds of a typed text
Shape(text) ==
    CASE text = "contact@tn.media" ->
             Run("w", 7) \o <<"@">> \o Run("w", 2) \o <<".">> \o Run("w", 5)
      [] text = "a@b\\.c" -> <<"w", "@", "w", "\\", ".", "w">>
      [] text = "+216 70 000 000" ->
             <<"w">> \o Run("d", 3) \o <<" ">> \o Run("d", 2) \o <<" ">>
             \o Run("d", 3) \o <<" ">> \o Run("d", 3)
      [] text = "12345" -> Run("d", 5)
      [] text = "Amina" -> Run("w", 5)
      [] OTHER -> Run("w", 8)

\* [^@\\s] in the raw string of _validate_email: any character but "@", the
\* backslash and "s"
EmailClass(kind) == kind \notin {"@", "\\", "s"}

\* re.match(r"^[^@\\s]+@[^@\\s]+\\.[^@\\s]+$", value), state_machine.py:706-707:
\* a run of the class, "@", a run of the class, a backslash, any character, a
\* run of the class
validate_email(shape) ==
    \E i, j \in 1..Len(shape) :
       /\ 1 < i /\ i + 1 < j /\ j + 2 <= Len(shape)
       /\ shape[i] = "@" /\ shape[j] = "\\"
       /\ \A k \in 1..Len(shape) : k \notin {i, j, j + 1} => EmailClass(shape[k])

\* re.sub(r"\\D", "", value): every backslash followed by "D" is removed
RECURSIVE RemoveBackslashD(_)
RemoveBackslashD(shape) ==
    IF shape = <<>> THEN <<>>
    ELSE IF Len(shape) >= 2 /\ shape[1] = "\\" /\ shape[2] = "D"
    THEN RemoveBackslashD(SubSeq(shape, 3, Len(shape)))
    ELSE <<Head(shape)>> \o RemoveBackslashD(Tail(shape))

\* state_machine.py:710-712
validate_phone(shape) == Len(RemoveBackslashD(shape)) >= 6

\* _validate_integer (state_machine.py:715-720): the digits of the text read
\* as a positive number, "" for None
validate_integer(text) ==
    CASE text = "3 projets" -> "3"
      [] text = "12345" -> "12345"
      [] text = "+216 70 000 000" -> "21670000000"
      [] OTHER -> ""

FORM_OPTIONAL_TOKENS == {"passer", "aucun", "aucune", "non", "n/a", "na"}

\* build_wizard_prompt (state_machine.py:728-731)
build_wizard_prompt(step) == <<"prompt", step>>

\* build_response (state_machine.py:607-622); buttons are those of a step
build_response(assistant_message, buttons, suggested_next_step, slot_updates, handoff, rag_used) ==
    [assistant_message |-> assistant_message, buttons |-> buttons,
     suggested_next_step |-> suggested_next_step, slot_updates |-> slot_updates,
     handoff |-> handoff, rag_used |-> rag_used]

SlotGet(slots, key, default) ==
    IF \E p \in slots : p[1] = key /\ p[2] # ""
    THEN (CHOOSE p \in slots : p[1] = key /\ p[2] # "")[2]
    ELSE default

\* dict.update
SlotsUpdate(slots, updates) ==
    {p \in slots : \A u \in updates : u[1] # p[1]} \cup updates

\* a recorded value: the next prompt, or at BUDGET_RANGE the recommendation
\* (state_machine.py:930-960 and 962-992)
RecordedResponse(step, value, slots) ==
    IF step = "BUDGET_RANGE"
    THEN build_response(<< <<"recommendation", value>>, <<"text", "coordonnées">> >>,
                        "FORM_STANDARD_FIRST_NAME", "FORM_STANDARD_FIRST_NAME",
                        {<<WIZARD_SLOTS(step), value>>,
                         <<"need_type", SlotGet(slots, "need_type", "budget_help")>>,
                         <<"lead_type", SlotGet(slots, "lead_type", "standard")>>},
                        FALSE, FALSE)
    ELSE build_response(<<build_wizard_prompt(WIZARD_NEXT_STEP(step))>>,
                        WIZARD_NEXT_STEP(step), WIZARD_NEXT_STEP(step),
                        {<<WIZARD_SLOTS(step), value>>}, FALSE, FALSE)

\* the step is asked again with a message and no slot update
StayResponseAdvancing(step, assistant_message, rag_used) ==
    build_response(assistant_message, WIZARD_NEXT_STEP(step), WIZARD_NEXT_STEP(step), {},
                   FALSE, rag_used)
StayResponse(step, assistant_message, rag_used) ==
    build_response(assistant_message, step, step, {}, FALSE, rag_used)

\* state_machine.py:994-1004
QuestionResponseAdvancing(step, rag_answer) ==
    build_response(<<rag_answer, <<"text", "Pour continuer : ">>,
                     build_wizard_prompt(WIZARD_NEXT_STEP(step))>>,
                   WIZARD_NEXT_STEP(step), WIZARD_NEXT_STEP(step), {}, FALSE, TRUE)
QuestionResponse(step, rag_answer) ==
    StayResponse(step, <<rag_answer, <<"text", "Pour continuer : ">>,
                         build_wizard_prompt(step)>>, TRUE)

\* what _answer_rag_question gives handle_step: an answer (of the language
\* model, a canned one after LLMClientError, or the launch year), or the
\* exception of call_llm it does not catch (state_machine.py:779-787)
RagAnswers == {"answer", "TimeoutError"}

\* create_wizard_lead(updated_slots): stored, or any exception
LeadOutcomes == {"ok", "error"}

\* handle_step (state_machine.py:901-1110)
handle_step(step, user_message, button_id, slots, rag, lead) ==
    LET slot_key == WIZARD_SLOTS(step)
        selected_button_id ==
            IF button_id # NoButton THEN button_id ELSE match_button_id(step, user_message)
        matched == match_text_value(step, user_message)
        cleaned == StripMessage(user_message)
        optional == /\ step \in {"FORM_STANDARD_JOB_TITLE", "FORM_STANDARD_MESSAGE"}
                    /\ normalize_text(cleaned) \in FORM_OPTIONAL_TOKENS
        value == IF optional THEN "" ELSE cleaned
    IN  IF step = "FORM_STANDARD_DONE"
        THEN Returned(build_response(<<build_wizard_prompt(step)>>, step, step, {},
                                     TRUE, FALSE))
        ELSE IF step \notin WizardSlotSteps
        THEN Returned(StayResponse(step, << <<"text", "Je n'ai pas compris. ">>,
                                            build_wizard_prompt(step)>>, FALSE))
        ELSE IF selected_button_id # NoButton /\ selected_button_id \in WizardButtonIds
        THEN Returned(RecordedResponse(step, WIZARD_BUTTON_VALUES(selected_button_id),
                                       slots))
        ELSE IF matched # ""
        THEN Returned(RecordedResponse(step, matched, slots))
        ELSE IF looks_like_question(user_message)
        THEN IF rag = "TimeoutError" THEN Raised("TimeoutError")
             ELSE Returned(QuestionResponse(step, <<"rag_answer", rag>>))
        ELSE IF StepButtons(step) # <<>>
        THEN Returned(StayResponse(step, << <<"text", "Merci de choisir un bouton.">> >>,
                                   FALSE))
        ELSE IF cleaned = ""
        THEN Returned(StayResponse(step, << <<"text", "Je n'ai pas compris. ">>,
                                            build_wizard_prompt(step)>>, FALSE))
        ELSE IF step = "FORM_STANDARD_EMAIL" /\ ~validate_email(Shape(cleaned))
        THEN Returned(StayResponse(step, << <<"text", "email valide ?">> >>, FALSE))
        ELSE IF step = "FORM_STANDARD_PHONE" /\ ~validate_phone(Shape(cleaned))
        THEN Returned(StayResponse(step, << <<"text", "téléphone valide ?">> >>, FALSE))
        ELSE IF step \in {"FORM_IMMONEUF_PROJECTS_COUNT", "FORM_PREMIUM_ESTIMATED_USERS"}
        THEN IF validate_integer(cleaned) = ""
             THEN Returned(StayResponse(step, << <<"text", "nombre valide.">> >>, FALSE))
             ELSE Returned(build_response(
                      <<build_wizard_prompt(WIZARD_NEXT_STEP(step))>>,
                      WIZARD_NEXT_STEP(step), WIZARD_NEXT_STEP(step),
                      {<<slot_key, validate_integer(cleaned)>>}, FALSE, FALSE))
        ELSE IF step = "FORM_STANDARD_MESSAGE"
        THEN IF lead = "error"
             THEN Returned(StayResponse(step, << <<"text", "Une erreur est survenue">> >>,
                                        FALSE))
             ELSE Returned(build_response(<<build_wizard_prompt("FORM_STANDARD_DONE")>>,
                                          "FORM_STANDARD_DONE", "FORM_STANDARD_DONE",
                                          {<<slot_key, value>>}, TRUE, FALSE))
        ELSE Returned(build_response(<<build_wizard_prompt(WIZARD_NEXT_STEP(step))>>,
                                     WIZARD_NEXT_STEP(step), WIZARD_NEXT_STEP(step),
                                     {<<slot_key, value>>}, FALSE, FALSE))

\* the steps at which a conversation enters the wizard (state_machine.py:171-195)
WizardEntrySteps ==
    {"BUDGET_CLIENT_TYPE", "FORM_IMMONEUF_PROJECT_CITIES",
     "FORM_PREMIUM_ESTIMATED_USERS", "FORM_PARTNERSHIP_PRIORITY",
     "FORM_STANDARD_FIRST_NAME"}

\* the texts typed at a step
TypedAt(step) ==
    {"", "  ", "Quels sont vos produits ?", "Offre vidéo", "Menu principal"}
    \cup CASE step = "BUDGET_CLIENT_TYPE" -> {"Agence média / communication", "Amina"}
           [] step = "BUDGET_OBJECTIVE" -> {"notoriété / image "}
           [] step = "BUDGET_RANGE" -> {"1000-3000"}
           [] step = "FORM_STANDARD_FIRST_NAME" -> {"Amina"}
           [] step = "FORM_STANDARD_LAST_NAME" -> {"Ben Ali"}
           [] step = "FORM_STANDARD_COMPANY" -> {"TN Media"}
           [] step = "FORM_STANDARD_EMAIL" -> {"contact@tn.media", "a@b\\.c", "Amina"}
           [] step = "FORM_STANDARD_PHONE" -> {"+216 70 000 000", "12345"}
           [] step = "FORM_STANDARD_JOB_TITLE" -> {"Directrice marketing", " Passer"}
           [] step = "FORM_STANDARD_SECTOR" -> {"Banque", "Amina"}
           [] step = "FORM_STANDARD_MESSAGE" ->
                  {"Nous souhaitons une campagne rapide.", " Passer"}
           [] step \in {"FORM_IMMONEUF_PROJECTS_COUNT", "FORM_PREMIUM_ESTIMATED_USERS"} ->
                  {"3 projets", "Amina"}
           [] OTHER -> {"Tunis et Sousse"}

\* the button the client sends with a message: none, or one shown at the step
ClickedAt(step) ==
    {NoButton, "NAV_MAIN_MENU"}
    \cup (IF StepButtons(step) = <<>> THEN {} ELSE {StepButtons(step)[1]})

NoTurn ==
    [step |-> "", user_message |-> "", button_id |-> NoButton, slots |-> {},
     lead |-> "ok"]

InitWizard ==
    /\ RetrievalIdle
    /\ ret = Pending
    /\ \E entry \in WizardEntrySteps :
          call = [fn |-> "handle_step", entry |-> entry, step |-> entry, slots |-> {},
                  lead |-> {}, created |-> FALSE, last |-> NoTurn]

\* one turn of the conversation: main.py:238-265 around handle_step; the
\* session keeps the suggested step, the client merges the slot updates
WizardTurn ==
    /\ call.fn = "handle_step"
    /\ \E user_message \in TypedAt(call.step), button_id \in ClickedAt(call.step) :
       \E rag \in IF looks_like_question(user_message) THEN RagAnswers ELSE {"answer"},
          lead \in IF call.step = "FORM_STANDARD_MESSAGE" THEN LeadOutcomes ELSE {"ok"} :
         LET out == handle_step(call.step, user_message, button_id, call.slots, rag, lead)
             turn == [step |-> call.step, user_message |-> user_message,
                      button_id |-> button_id, slots |-> call.slots, lead |-> lead]
             \* create_wizard_lead(updated_slots) was reached and succeeded
             stored == /\ call.step = "FORM_STANDARD_MESSAGE"
                       /\ out.kind = "return" /\ out.value.handoff
         IN  /\ ret' = out
             /\ call' = IF out.kind = "raise" THEN [call EXCEPT !.last = turn]
                        ELSE [call EXCEPT
                                 !.last = turn,
                                 !.step = out.value.suggested_next_step,
                                 !.slots = SlotsUpdate(@, out.value.slot_updates),
                                 !.created = @ \/ stored,
                                 !.lead = IF stored
                                          THEN SlotsUpdate(call.slots,
                                                           out.value.slot_updates)
                                          ELSE @]
    /\ UNCHANGED retrieval_vars

NextWizard == WizardTurn

SpecWizard == InitWizard /\ [][NextWizard]_vars

(***************************************************************************)
(* Claims about the wizard, checked under SpecWizard                       *)
(***************************************************************************)
WizardCall == call.fn = "handle_step"
Turned == WizardCall /\ call.last.step # ""

\* the answers of the acceptance test: a button at the budget steps, the
\* typed text elsewhere
ValidAnswer(turn) ==
    CASE turn.step \in {"BUDGET_CLIENT_TYPE", "BUDGET_OBJECTIVE", "BUDGET_RANGE"} ->
             /\ turn.button_id \in Range(StepButtons(turn.step))
             /\ turn.user_message = ""
      [] turn.step = "FORM_STANDARD_FIRST_NAME" ->
             turn.button_id = NoButton /\ turn.user_message = "Amina"
      [] turn.step = "FORM_STANDARD_LAST_NAME" ->
             turn.button_id = NoButton /\ turn.user_message = "Ben Ali"
      [] turn.step = "FORM_STANDARD_COMPANY" ->
             turn.button_id = NoButton /\ turn.user_message = "TN Media"
      [] turn.step = "FORM_STANDARD_EMAIL" ->
             turn.button_id = NoButton /\ turn.user_message = "contact@tn.media"
      [] turn.step = "FORM_STANDARD_PHONE" ->
             turn.button_id = NoButton /\ turn.user_message = "+216 70 000 000"
      [] turn.step = "FORM_STANDARD_JOB_TITLE" ->
             turn.button_id = NoButton /\ turn.user_message = "Directrice marketing"
      [] turn.step = "FORM_STANDARD_SECTOR" ->
             turn.button_id = NoButton /\ turn.user_message = "Banque"
      [] turn.step = "FORM_STANDARD_MESSAGE" ->
             /\ turn.button_id = NoButton
             /\ turn.user_message = "Nous souhaitons une campagne rapide."
      [] OTHER -> FALSE

SlotKeys(slots) == {p[1] : p \in slots}

\* C27: on the path entered at BUDGET_CLIENT_TYPE, a valid answer at a step
\* records the slot of the step and moves to the successor given by
\* WIZARD_NEXT_STEP; at FORM_STANDARD_MESSAGE (the lead store working) the
\* lead is created from the collected slots and the handoff is requested.
C27_AsStated ==
    Turned /\ call.entry = "BUDGET_CLIENT_TYPE" /\ ValidAnswer(call.last)
           /\ call.last.lead = "ok" =>
        /\ ret.kind = "return"
        /\ ret.value.suggested_next_step = WIZARD_NEXT_STEP(call.last.step)
        /\ WIZARD_SLOTS(call.last.step) \in SlotKeys(ret.value.slot_updates)
        /\ call.last.step = "FORM_STANDARD_MESSAGE" =>
              /\ ret.value.handoff
              /\ call.created
              /\ call.lead = call.slots

\* a question typed at a step that collects a slot, matching no button label
QuestionTyped(turn) ==
    /\ turn.step \in WizardSlotSteps
    /\ turn.button_id = NoButton
    /\ looks_like_question(turn.user_message)
    /\ match_button_id(turn.step, turn.user_message) = NoButton

EndsWithPrompt(assistant_message, step) ==
    /\ assistant_message # <<>>
    /\ assistant_message[Len(assistant_message)] = build_wizard_prompt(step)

QuestionAnswered(turn, response) ==
    /\ response.suggested_next_step = turn.step
    /\ response.slot_updates = {}
    /\ response.rag_used
    /\ EndsWithPrompt(response.assistant_message, turn.step)

LastCall == calls[Len(calls)]
Issued(fn) == Len(calls') = Len(calls) + 1 /\ calls'[Len(calls')].fn = fn
SearchesSoFar == CallsOf("search_qdrant") \cup CallsOf("keyword_search_bm25")
AllSearchesEmpty == \A i \in SearchesSoFar : calls[i].count = 0
OverrideDiffers ==
    /\ normalized_intent \in {"audience", "overview", "solutions"}
    /\ score_threshold # 0

\* the call issued in this step came back and was logged as `expected`
Answered(threshold, intent) ==
    calls'[Len(calls')].count >= 0 =>
        /\ calls'[Len(calls')].threshold = threshold
        /\ calls'[Len(calls')].intent = intent

\* C29: the threshold-override search is issued only when the fused primary
\* result is empty and the intent has an override differing from the
\* configured threshold; the no-threshold search only when the result is
\* still empty after that; both carry the intent filter of the primary
\* search; neither is issued once a level has produced a non-empty result.
C29_LadderOnEmptiness ==
    [][/\ (pc = "threshold_fallback" /\ Issued("search_qdrant")) =>
              /\ semantic_chunks = <<>> /\ chunks = <<>>
              /\ AllSearchesEmpty
              /\ Cardinality(CallsOf("search_qdrant")) = 1
              /\ OverrideDiffers
              /\ Answered(Threshold(0), normalized_intent)
       /\ (pc = "empty_retry" /\ Issued("search_qdrant")) =>
              /\ semantic_chunks = <<>> /\ chunks = <<>>
              /\ AllSearchesEmpty
              /\ Cardinality(CallsOf("search_qdrant")) = IF OverrideDiffers THEN 2 ELSE 1
              /\ Answered(NoThreshold, normalized_intent)
       /\ (Len(calls) >= 3 /\ semantic_chunks # <<>>) =>
              ~(Issued("search_qdrant") /\ pc \in {"threshold_fallback", "empty_retry"})
       /\ (pc = "intent_filter" /\ chunks # <<>>) =>
              pc' \notin {"threshold_fallback", "empty_retry"}]_vars

\* both retries issued for intent "audience": the override search empty, the
\* no-threshold search answered
C29_Witness ==
    /\ Len(calls) >= 5
    /\ normalized_intent = "audience"
    /\ score_threshold = DEFAULT_RAG_SCORE_THRESHOLD
    /\ calls[2].count = 0 /\ calls[3].count = 0
    /\ calls[4] = [fn |-> "search_qdrant", threshold |-> Threshold(0),
                   intent |-> "audience", count |-> 0]
    /\ calls[5].fn = "search_qdrant"
    /\ calls[5].threshold = NoThreshold
    /\ calls[5].intent = "audience"
    /\ calls[5].count > 0

\* C30: load_intent_chunks is invoked only when an intent is set and every
\* search before it, the unfiltered ones included, returned nothing; chunks
\* of the file never replace chunks a search returned.
C30_AsStated ==
    [][Issued("load_intent_chunks") =>
           /\ normalized_intent # "none"
           /\ AllSearchesEmpty
           /\ chunks # <<>> => chunks' = chunks]_vars

(***************************************************************************)
(* Intent resolution: the callers of retrieve_rag_context choose the       *)
(* intent they pass (main.py:192-194 and 343-346, 460-462 and 659-662,     *)
(* state_machine.py:762) and retrieve_rag_context normalises it            *)
(* (retrieve.py:609).  A query is a sequence of words separated by blanks; *)
(* a supplied intent is "" when the request carries none.                  *)
(***************************************************************************)
MaxIntentWords == 2   \* words of the user message

IntentWords ==
    {"Bonjour", "audience", "offres", "Formats", "format video", "magazine", "neuf", "x"}

IntentQueries == UNION {[1..n -> IntentWords] : n \in 0..MaxIntentWords}

\* the keywords of INTENT_KEYWORDS that occur in the lower-cased word
KeywordsIn(word) ==
    CASE word = "Bonjour" -> {"bonjour"}
      [] word = "audience" -> {"audience"}
      [] word = "offres" -> {"offre", "offres"}
      [] word = "Formats" -> {"format", "formats"}
      [] word = "format video" -> {"format video", "video", "format"}
      [] word = "magazine" -> {"mag", "magazine"}
      [] word = "neuf" -> {"neuf"}
      [] OTHER -> {}

\* keyword in user_message.lower()
KeywordsOf(query) == UNION {KeywordsIn(query[i]) : i \in 1..Len(query)}

\* retrieve.py:67-80
INTENT_KEYWORDS ==
    << <<"welcome_scope", {"bonjour", "bonsoir", "salut", "hello", "hey", "coucou"}>>,
       <<"audience", {"audience", "lecteurs", "lectorat"}>>,
       <<"solutions", {"offre", "offres", "produit", "produits", "solution", "solutions"}>>,
       <<"display", {"display", "banniere", "bannières", "banner", "banners"}>>,
       <<"content", {"contenu", "contenus", "sponsorisé", "sponsorise", "article"}>>,
       <<"video", {"format video", "vidéo", "video"}>>,
       <<"newsletter_audio", {"newsletter", "audio", "emailing"}>>,
       <<"innovation", {"innovation", "innovant", "innovante", "operation speciale"}>>,
       <<"mag", {"mag", "magazine"}>>,
       <<"formats", {"format", "formats"}>>,
       <<"immoneuf", {"immoneuf", "immobilier neuf", "neuf"}>>,
       <<"premium", {"premium"}>> >>

\* classify_intent (retrieve.py:570-577), "" for None
classify_intent(user_message) ==
    LET hits == {i \in 1..Len(INTENT_KEYWORDS) :
                    INTENT_KEYWORDS[i][2] \cap KeywordsOf(user_message) # {}}
    IN  IF hits = {} THEN ""
        ELSE INTENT_KEYWORDS[CHOOSE i \in hits : \A j \in hits : i <= j][1]

\* the intents a request carries in state.intent or context.intent
SuppliedIntents == {"", "  ", " Audience ", "formats"}

\* intent.strip().lower()
StripLowerIntent(intent) ==
    CASE intent = "  " -> ""
      [] intent = " Audience " -> "audience"
      [] OTHER -> intent

\* normalize_intent (retrieve.py:506-510), "" for None
normalize_intent(intent) == IF intent = "" THEN "" ELSE StripLowerIntent(intent)

\* the intent a caller passes to retrieve_rag_context: raw_intent or
\* classify_intent(user_message) in main.py, none in _answer_rag_question
PassedIntent(fn, raw_intent, user_message) ==
    IF fn = "_answer_rag_question" THEN ""
    ELSE IF raw_intent # "" THEN raw_intent
    ELSE classify_intent(user_message)

InitIntent ==
    /\ RetrievalIdle
    /\ ret = Pending
    /\ \E fn \in Callers, query \in IntentQueries :
         \E raw \in IF fn = "_answer_rag_question" THEN {""} ELSE SuppliedIntents :
            call = [fn |-> "resolve_intent", caller |-> fn, raw_intent |-> raw,
                    query |-> query, stage |-> "request", intent |-> ""]

\* main.py:192-194, 460-462; state_machine.py:762
CallerPassesIntent ==
    /\ call.fn = "resolve_intent"
    /\ call.stage = "request"
    /\ call' = [call EXCEPT !.stage = "called",
                            !.intent = PassedIntent(call.caller, call.raw_intent,
                                                    call.query)]
    /\ UNCHANGED ret
    /\ UNCHANGED retrieval_vars

\* retrieve.py:609
NormalizeIntent ==
    /\ call.fn = "resolve_intent"
    /\ call.stage = "called"
    /\ call' = [call EXCEPT !.stage = "resolved"]
    /\ ret' = Returned(normalize_intent(call.intent))
    /\ UNCHANGED retrieval_vars

NextIntent == CallerPassesIntent \/ NormalizeIntent

SpecIntent == InitIntent /\ [][NextIntent]_vars

(***************************************************************************)
(* Claims about intent resolution, checked under SpecIntent                *)
(***************************************************************************)
IntentResolved == call.fn = "resolve_intent" /\ call.stage = "resolved"

\* the first pair of INTENT_KEYWORDS one of whose keywords the query holds
FirstKeywordPair(query) ==
    IF \E i \in 1..Len(INTENT_KEYWORDS) : INTENT_KEYWORDS[i][2] \cap KeywordsOf(query) # {}
    THEN INTENT_KEYWORDS[
             CHOOSE i \in 1..Len(INTENT_KEYWORDS) :
                /\ INTENT_KEYWORDS[i][2] \cap KeywordsOf(query) # {}
                /\ \A j \in 1..(i - 1) : INTENT_KEYWORDS[j][2] \cap KeywordsOf(query) = {}][1]
    ELSE ""

\* C31: for every caller the intent used is the supplied value trimmed and
\* lower-cased when that is not blank, else the intent of the first pair of
\* INTENT_KEYWORDS with a keyword in the lower-cased query, else none.
C31_AsStated ==
    IntentResolved =>
        ret.value = IF StripLowerIntent(call.raw_intent) # ""
                    THEN StripLowerIntent(call.raw_intent)
                    ELSE FirstKeywordPair(call.query)

(***************************************************************************)
(* Claims about the pool handed to reranking, checked under Spec           *)
(***************************************************************************)
\* the request stands before rerank_chunks_cross_encoder with the working set
\* of the primary search, no intent filter having applied
RerankOfPrimary ==
    /\ pc = "rerank"
    /\ normalized_intent = "none"
    /\ semantic_chunks # <<>>

\* C32: every candidate the primary vector search fetched (up to
\* retrieval_limit of them) is in the list handed to reranking, so one placed
\* beyond position top_k can still be selected.
C32_AsStated ==
    RerankOfPrimary =>
        /\ calls[2].fn = "search_qdrant"
        /\ calls[2].count <= Len(chunks)

(***************************************************************************)
(* Further claims about rerank_chunks_lexical, checked under SpecRerank    *)
(***************************************************************************)
\* the weight once clamped into [0, 1], in hundredths
ClampedWeight(w) == IF w < 0 THEN 0 ELSE IF w > 100 THEN 100 ELSE w

\* (1 - w) * originalScore + w * overlapFraction, times 100 * 100 * max(1, tokens)
Blended(chunk) ==
    (100 - ClampedWeight(call.weight)) * chunk.score * Max(1, call.n_tokens)
        + ClampedWeight(call.weight) * 100 * (IF call.n_tokens = 0 THEN 0 ELSE chunk.ov)

EqualOnKeys(a, b) == Blended(a) = Blended(b) /\ a.ov = b.ov /\ a.score = b.score

\* C33: the result of rerank_chunks_lexical is a permutation of the input,
\* ordered by non-increasing blended score with the weight clamped into
\* [0, 1] and the overlap fraction in [0, 1]; candidates equal on blended
\* score, overlap and score keep their input order.
C33_RerankPermutation ==
    RerankReturned =>
        /\ Len(ret.value) = Len(call.chunks)
        /\ \A i \in 1..Len(call.chunks) :
              \E k \in 1..Len(ret.value) : ret.value[k] = call.chunks[i]
        /\ \A k \in 1..Len(ret.value) : ret.value[k].ov \in 0..call.n_tokens
        /\ \A k, l \in 1..Len(ret.value) :
              k < l =>
                 /\ Blended(ret.value[k]) >= Blended(ret.value[l])
                 /\ EqualOnKeys(ret.value[k], ret.value[l]) =>
                       ret.value[k].point_id < ret.value[l].point_id

\* a weight above 1 clamped to 1: the second candidate, with the lower score
\* and the larger overlap, comes first
C33_Witness ==
    /\ RerankReturned
    /\ call.weight = 150
    /\ Len(call.chunks) = 2
    /\ call.chunks[1].score > call.chunks[2].score
    /\ call.chunks[1].ov < call.chunks[2].ov
    /\ ret.value = <<call.chunks[2], call.chunks[1]>>

(***************************************************************************)
(* Further claims about reciprocal_rank_fusion, checked under SpecFusion   *)
(***************************************************************************)
HoldsId(list, id) == \E i \in 1..Len(list) : list[i].point_id = id

\* C34: a returned chunk whose identifier is in the vector list is the
\* vector list's chunk, also when the lexical list holds the identifier; one
\* whose identifier is in the lexical list only is the lexical list's chunk.
C34_VectorChunkWins ==
    FusionReturned =>
        \A k \in 1..Len(ret.value) :
            LET chunk == ret.value[k]
            IN  IF HoldsId(call.vector_results, chunk.point_id)
                THEN \E i \in 1..Len(call.vector_results) : call.vector_results[i] = chunk
                ELSE \E i \in 1..Len(call.keyword_results) : call.keyword_results[i] = chunk

\* the result holds an identifier of both lists, as the vector chunk, and one
\* of the lexical list only
C34_Witness ==
    /\ FusionReturned
    /\ \E k \in 1..Len(ret.value) :
          /\ HoldsId(call.vector_results, ret.value[k].point_id)
          /\ HoldsId(call.keyword_results, ret.value[k].point_id)
          /\ ret.value[k].src = "vector"
    /\ \E k \in 1..Len(ret.value) :
          /\ ~HoldsId(call.vector_results, ret.value[k].point_id)
          /\ ret.value[k].src = "keyword"

(***************************************************************************)
(* Ingestion: ingest_sources (ingest.py:244-340) and _ingest_document      *)
(* (admin.py:420-536), the latter behind the endpoints run_ingestion,      *)
(* run_ingestion_upload and run_ingestion_stream (admin.py:687-782), each  *)
(* request of which runs in a thread of its own.  Two executions run       *)
(* concurrently, one step per request they send.  The activation record    *)
(* holds what they share: the collection of the vector index (exists, the  *)
(* create requests it received, the points upserted) and the committed     *)
(* rows of kb_documents and kb_chunks; and for each execution its position *)
(* and the rows of its open transaction.  ingest_sources works in one      *)
(* transaction (ingest.py:26-28, 249), _ingest_document on an autocommit   *)
(* connection (db.py:8-11).  A file yields one chunk; documents, chunks    *)
(* and points are named <<execution, file>>.                               *)
(***************************************************************************)
MaxFiles == 2   \* source files of an ingest_sources run

Writers == {1, 2}
IngestKinds == {"ingest_sources", "_ingest_document"}

\* the files of a run: blank ones are skipped (ingest.py:260-264)
FileTexts == {"blank", "words"}

Document(id, status) == [id |-> id, status |-> status]

\* UPDATE kb_documents SET status = ... WHERE id = ...
SetStatus(documents, id, status) ==
    {d \in documents : d.id # id} \cup {Document(id, status)}

\* chunk_text (ingest.py:77-90) of a text: no chunk without a word
ChunksOf(text) == IF text = "blank" THEN 0 ELSE 1

Writer(kind, files) ==
    [kind |-> kind, files |-> files, file |-> 1, pc |-> "start",
     txn_documents |-> {}, txn_chunks |-> {}]

InitIngest ==
    /\ RetrievalIdle
    /\ ret = Pending
    /\ \E exists \in BOOLEAN, kinds \in [Writers -> IngestKinds] :
         \E files \in [Writers -> UNION {[1..n -> FileTexts] : n \in 1..MaxFiles}] :
            /\ \A w \in Writers :
                  kinds[w] = "_ingest_document" => files[w] = <<"words">>
            /\ call = [fn |-> "ingest", exists |-> exists, creates |-> <<>>,
                       points |-> {}, documents |-> {}, chunks |-> {},
                       writers |-> [w \in Writers |-> Writer(kinds[w], files[w])]]

\* an exception leaves the execution: the transaction of ingest_sources is
\* rolled back, the autocommitted rows of _ingest_document stay
Abandon(writer) ==
    [writer EXCEPT !.pc = "failed", !.txn_documents = {}, !.txn_chunks = {}]

\* ingest.py:262-283 up to the chunking: the run commits after its last file;
\* a blank file is skipped; a document row is inserted with status
\* processing.  admin.py:431-433: _ingest_document only chunks.
IngestStart(w) ==
    LET writer == call.writers[w]
        id == <<w, writer.file>>
    IN  /\ call.fn = "ingest"
        /\ writer.pc = "start"
        /\ IF writer.kind = "_ingest_document"
           THEN call' = [call EXCEPT !.writers[w].pc = "embed"]
           ELSE IF writer.file > Len(writer.files)
           THEN call' = [call EXCEPT
                            !.documents = @ \cup writer.txn_documents,
                            !.chunks = @ \cup writer.txn_chunks,
                            !.writers[w] = [writer EXCEPT !.pc = "done",
                                                          !.txn_documents = {},
                                                          !.txn_chunks = {}]]
           ELSE IF writer.files[writer.file] = "blank"
           THEN call' = [call EXCEPT !.writers[w].file = @ + 1]
           ELSE IF ChunksOf(writer.files[writer.file]) = 0
           THEN call' = [call EXCEPT
                            !.writers[w].txn_documents =
                                @ \cup {Document(id, "empty")},
                            !.writers[w].file = @ + 1]
           ELSE call' = [call EXCEPT
                            !.writers[w].txn_documents =
                                @ \cup {Document(id, "processing")},
                            !.writers[w].pc = "embed"]
        /\ UNCHANGED ret
        /\ UNCHANGED retrieval_vars

\* embed_texts(chunks): ingest.py:284, admin.py:439-444
IngestEmbed(w) ==
    /\ call.fn = "ingest"
    /\ call.writers[w].pc = "embed"
    /\ \E ok \in BOOLEAN :
          call' = [call EXCEPT
                      !.writers[w] = IF ok THEN [@ EXCEPT !.pc = "probe"]
                                     ELSE Abandon(@)]
    /\ UNCHANGED ret
    /\ UNCHANGED retrieval_vars

\* ensure_qdrant_collection, the probe (ingest.py:53-58)
IngestProbe(w) ==
    /\ call.fn = "ingest"
    /\ call.writers[w].pc = "probe"
    /\ \E status \in ProbeAnswers(call.exists) :
          call' = [call EXCEPT
                      !.writers[w] =
                          IF status = 200 THEN [@ EXCEPT !.pc = "write"]
                          ELSE IF status # 0 /\ ProbeSaysAbsent(status)
                          THEN [@ EXCEPT !.pc = "create"]
                          ELSE Abandon(@)]
    /\ UNCHANGED ret
    /\ UNCHANGED retrieval_vars

\* what PUT /collections/{name} meets when the collection exists: the server
\* refuses, or the request fails
CreateAnswersExisting ==
    {[status |-> 409, applied |-> FALSE], [status |-> 0, applied |-> FALSE]}

\* ensure_qdrant_collection, the create request (ingest.py:60-66)
IngestCreate(w) ==
    /\ call.fn = "ingest"
    /\ call.writers[w].pc = "create"
    /\ \E answer \in IF call.exists THEN CreateAnswersExisting ELSE CreateAnswers :
          call' = [call EXCEPT
                      !.creates = Append(@, QdrantRequest("PUT", answer.status,
                                                          call.exists, w)),
                      !.exists = @ \/ answer.applied,
                      !.writers[w] = IF answer.status = 200
                                     THEN [@ EXCEPT !.pc = "write"]
                                     ELSE Abandon(@)]
    /\ UNCHANGED ret
    /\ UNCHANGED retrieval_vars

\* the chunk rows, the upsert and the status ready: ingest.py:286-325 within
\* the transaction of the run; admin.py:454-512 with every statement
\* committed as it is executed, the document row first
IngestWrite(w) ==
    LET writer == call.writers[w]
        id == <<w, writer.file>>
    IN  /\ call.fn = "ingest"
        /\ writer.pc = "write"
        /\ \E upserted \in BOOLEAN :
              IF writer.kind = "_ingest_document"
              THEN call' = [call EXCEPT
                               !.documents =
                                   SetStatus(@, id, IF upserted THEN "ready"
                                                    ELSE "processing"),
                               !.chunks = @ \cup {id},
                               !.points = IF upserted THEN @ \cup {id} ELSE @,
                               !.writers[w].pc = IF upserted THEN "done" ELSE "failed"]
              ELSE IF upserted
              THEN call' = [call EXCEPT
                               !.points = @ \cup {id},
                               !.writers[w].txn_chunks = @ \cup {id},
                               !.writers[w].txn_documents = SetStatus(@, id, "ready"),
                               !.writers[w].file = @ + 1,
                               !.writers[w].pc = "start"]
              ELSE call' = [call EXCEPT !.writers[w] = Abandon(@)]
        /\ UNCHANGED ret
        /\ UNCHANGED retrieval_vars

NextIngest ==
    \E w \in Writers :
        \/ IngestStart(w)
        \/ IngestEmbed(w)
        \/ IngestProbe(w)
        \/ IngestCreate(w)
        \/ IngestWrite(w)

SpecIngest == InitIngest /\ [][NextIngest]_vars

(***************************************************************************)
(* Claims about ingestion, checked under SpecIngest                        *)
(***************************************************************************)
IngestCall == call.fn = "ingest"
Ended(w) == call.writers[w].pc \in {"done", "failed"}

\* the status of a document row as its execution sees it, "" when there is none
StatusIn(c, id) ==
    LET rows == c.documents \cup c.writers[id[1]].txn_documents
    IN  IF \E d \in rows : d.id = id THEN (CHOOSE d \in rows : d.id = id).status ELSE ""

DocumentIds == {<<w, f>> : w \in Writers, f \in 1..MaxFiles}

\* C35: a document row starts as processing and changes once, to ready after
\* its chunks were stored and upserted or to empty; it never leaves ready or
\* empty; no execution that has ended leaves a committed row in processing.
C35_AsStated ==
    /\ [](IngestCall =>
            \A w \in Writers :
               Ended(w) => \A d \in call.documents : d.id[1] = w => d.status # "processing")
    /\ [][IngestCall =>
            \A id \in DocumentIds :
               /\ (StatusIn(call, id) = "" /\ StatusIn(call', id) # "") =>
                     StatusIn(call', id) \in {"processing", "empty"}
               /\ (StatusIn(call, id) = "ready" /\ StatusIn(call', id) # "") =>
                     StatusIn(call', id) = "ready"
               /\ (StatusIn(call, id) = "empty" /\ StatusIn(call', id) # "") =>
                     StatusIn(call', id) = "empty"
               /\ (StatusIn(call, id) = "processing" /\ StatusIn(call', id) = "ready") =>
                     id \in call'.points]_vars

\* C36: under every interleaving of the ingestion entry points a create
\* request reaches the server only while the collection is absent, and the
\* collection is created at most once.
C36_AsStated ==
    IngestCall =>
        /\ \A i \in 1..Len(call.creates) : ~call.creates[i].existed
        /\ Cardinality({i \in 1..Len(call.creates) : call.creates[i].status = 200}) <= 1

\* C38: once ingest_sources has ended, normally or by an error, every point
\* it upserted has a committed kb_chunks row of the same identifier.
C38_AsStated ==
    IngestCall =>
        \A w \in Writers :
            (call.writers[w].kind = "ingest_sources" /\ Ended(w)) =>
                \A id \in call.points : id[1] = w => id \in call.chunks


(***************************************************************************)
(* The external calls of one retrieve_rag_context request, counted in the  *)
(* log of the calls it issued (a call that raised is logged too)           *)
(***************************************************************************)
\* the position of each step of retrieve_rag_context in the text of the
\* function (retrieve.py:596-740); the function has no loop and no recursion
LevelOrder ==
    <<"embed_query", "primary_vector", "primary_lexical", "threshold_fallback",
      "empty_retry", "intent_filter", "unfiltered", "unfiltered_retry",
      "file_fallback", "rerank", "select", "done">>

LevelOf(at) == CHOOSE i \in 1..Len(LevelOrder) : LevelOrder[i] = at

\* the request got past the embedding and the primary vector search
ReachedLexical == Len(calls) >= 2 /\ ~(\E i \in 1..2 : calls[i].count < 0)

MaxVectorSearches == IF normalized_intent = "none" THEN 2 ELSE 5

TextValidated(turn) ==
    /\ turn.step \in WizardSlotSteps
    /\ (IF turn.button_id # NoButton THEN turn.button_id
        ELSE match_button_id(turn.step, turn.user_message)) \notin WizardButtonIds
    /\ match_text_value(turn.step, turn.user_message) = ""
    /\ ~looks_like_question(turn.user_message)

\* why handle_step refuses the text of the turn, "" when it does not
Rejection(turn) ==
    CASE ~TextValidated(turn) -> ""
      [] StepButtons(turn.step) # <<>> -> "unknown button text"
      [] StripMessage(turn.user_message) = "" -> "blank text"
      [] /\ turn.step = "FORM_STANDARD_EMAIL"
         /\ ~validate_email(Shape(StripMessage(turn.user_message))) -> "invalid e-mail"
      [] /\ turn.step = "FORM_STANDARD_PHONE"
         /\ ~validate_phone(Shape(StripMessage(turn.user_message))) -> "invalid phone"
      [] /\ turn.step \in {"FORM_IMMONEUF_PROJECTS_COUNT", "FORM_PREMIUM_ESTIMATED_USERS"}
         /\ validate_integer(StripMessage(turn.user_message)) = "" -> "non-numeric count"
      [] OTHER -> ""

\* create_wizard_lead was called with the text of the turn
LeadCallReached(turn) ==
    /\ turn.step = "FORM_STANDARD_MESSAGE"
    /\ TextValidated(turn)
    /\ Rejection(turn) = ""

LeadCallFailed(turn) == LeadCallReached(turn) /\ turn.lead = "error"

WizardError(turn) == Rejection(turn) # "" \/ LeadCallFailed(turn)

=============================================================================
